---- MODULE Spec2Model ----
(***************************************************************************)
(* File-name derivation and reconciliation of the raw-conversion pipeline: *)
(* FileNameHelper (raw_conversion/file_name_helper.py), FileInfo           *)
(* (raw_conversion/file_info.py) and their base class DataReader           *)
(* (utils/abstract_classes.py).                                            *)
(*                                                                         *)
(* A Python str is a string; concatenation, length, slices, prefix tests   *)
(* and path splitting are computed on it.                                  *)
(* A Python list is a sequence.  list(set(...)) has no defined order in    *)
(* Python; SetToList fixes one order, and no formula below reads the       *)
(* position of a name inside such a list.                                  *)
(***************************************************************************)
EXTENDS Integers, Sequences, FiniteSets, TLC

VARIABLES
    epoch_names_list,       \* FileNameHelper.epoch_names_list (class attribute)
    camera_names_list,      \* FileNameHelper.camera_names_list (class attribute)
    fs,                     \* the directory tree: directory path -> set of file names
    dates,                  \* DataReader._dates of the FileInfo and of its helper
    n_epochs,               \* FileInfo._n_epochs
    h_n_epochs,             \* FileInfo._file_name_helper._n_epochs
    h_path_names,           \* FileInfo._file_name_helper._path_names
    h_expected_file_names,  \* FileInfo._file_name_helper._expected_file_names
    path_names,             \* FileInfo._path_names
    file_names,             \* FileInfo._file_names
    expected_file_names,    \* FileInfo._expected_file_names
    matching_file_names,    \* FileInfo._matching_file_names
    missing_file_names,     \* FileInfo._missing_file_names
    op,                     \* the last call: its name, its arguments, what it raised
    ret,                    \* the value the last call returned
    n_changes,              \* number of changes made to the directory tree so far
    seen_epoch_info         \* epoch index -> what get_epoch_name_info returned for it first

vars == <<epoch_names_list, camera_names_list, fs, dates, n_epochs, h_n_epochs,
          h_path_names, h_expected_file_names, path_names, file_names,
          expected_file_names, matching_file_names, missing_file_names,
          op, ret, n_changes, seen_epoch_info>>

config_vars == <<epoch_names_list, camera_names_list>>

instance_vars == <<fs, dates, n_epochs, h_n_epochs, h_path_names,
                   h_expected_file_names, path_names, file_names,
                   expected_file_names, matching_file_names,
                   missing_file_names, n_changes, seen_epoch_info>>

-----------------------------------------------------------------------------
(* Bounds of the model *)

MaxEpochIdx == 12       \* largest epoch index handed to get_epoch_name_info
MaxEpochs == 2          \* most .rec files a raw directory starts with
MaxChanges == 1         \* most changes made to the directory tree in one run
MaxNames == 3           \* longest list of names handed to compare_file_names
MaxAskedIdx == 3        \* largest epoch index asked of one helper again and again

-----------------------------------------------------------------------------
(* Python values *)

\* a Python value carries its type: None, an int, a str, a list, a DataFrame
None == [py |-> "none", v |-> <<>>]
PyStr(s) == [py |-> "str", v |-> s]
PyList(l) == [py |-> "list", v |-> l]
PyInt(i) == [py |-> "int", v |-> i]
DataFrame(rows) == [py |-> "df", v |-> rows]
\* a float, written as the fraction num/den
PyFloat(num, den) == [py |-> "float", v |-> [num |-> num, den |-> den]]

\* bool(x): None, 0, 0.0, '' and [] are false
Truthy(x) ==
    /\ x.py # "none"
    /\ x.py = "int" => x.v # 0
    /\ x.py = "float" => x.v.num # 0
    /\ x.py = "str" => x.v # ""
    /\ x.py = "list" => x.v # <<>>

\* what a call did: returned a value, or raised
Ok(x) == [err |-> "", v |-> x]
Raise(e) == [err |-> e, v |-> <<>>]

\* body(x) for x the value of e, which is computed once
Let(e, body(_)) == CHOOSE y \in {body(x) : x \in {e}} : TRUE

\* [f(x) for x in s]
Map(s, f(_)) == Let(s, LAMBDA l : [n \in 1..Len(l) |-> f(l[n])] \o <<>>)

\* [f(n, s[n]) for n in range(len(s))], n from 1
MapIndexed(s, f(_, _)) == Let(s, LAMBDA l : [n \in 1..Len(l) |-> f(n, l[n])] \o <<>>)

\* a str or a non-iterable is packed into a 1-item list, a list is kept
parse_iterable_inputs(arg) ==
    IF arg.py = "list" THEN arg.v ELSE <<arg.v>>

\* a 1-item list of str is unpacked to the str it holds, any other list is kept
parse_iterable_outputs(arg) ==
    Let(arg, LAMBDA l : IF Len(l) = 1 THEN PyStr(l[1]) ELSE PyList(l))

\* len(x) of a str or a list
PyLen(x) == Len(x.v)

Range(s) == Let(s, LAMBDA l : {l[n] : n \in 1..Len(l)})

\* len(names) == len(set(names))
IsUnique(s) == Let(s, LAMBDA l : Len(l) = Cardinality(Range(l)))

RECURSIVE SetToList(_)
SetToList(S) ==
    Let(S, LAMBDA T :
        IF T = {} THEN <<>>
        ELSE Let(CHOOSE y \in T : TRUE, LAMBDA x : <<x>> \o SetToList(T \ {x})))

RECURSIVE Concat(_)
\* itertools.chain(*list), pd.concat(list)
Concat(ss) ==
    Let(ss, LAMBDA l : IF l = <<>> THEN <<>> ELSE Head(l) \o Concat(Tail(l)))

RECURSIVE join(_)
\* ''.join(list)
join(ss) ==
    Let(ss, LAMBDA l : IF l = <<>> THEN "" ELSE Head(l) \o join(Tail(l)))

\* s[n] of a str
CharAt(s, n) == SubSeq(s, n, n)

Digits == <<"0", "1", "2", "3", "4", "5", "6", "7", "8", "9">>

RECURSIVE str(_)
\* str(n) of an int n >= 0
str(n) ==
    IF n < 10 THEN Digits[n + 1]
    ELSE str(n \div 10) \o Digits[(n % 10) + 1]

StartsWith(s, p) ==
    /\ Len(p) <= Len(s)
    /\ SubSeq(s, 1, Len(p)) = p

EndsWith(s, p) ==
    /\ Len(p) <= Len(s)
    /\ SubSeq(s, Len(s) - Len(p) + 1, Len(s)) = p

\* position of the last separator of a path, 0 when there is none
LastSep(p) ==
    LET at == {n \in 1..Len(p) : CharAt(p, n) = "/"}
    IN  IF at = {} THEN 0 ELSE CHOOSE n \in at : \A m \in at : m <= n

\* os.path.join(a, b) for two components
os_path_join(a, b) ==
    IF b # "" /\ CharAt(b, 1) = "/" THEN b
    ELSE IF a = "" \/ CharAt(a, Len(a)) = "/" THEN a \o b
    ELSE a \o "/" \o b

RECURSIVE rstrip_sep(_)
rstrip_sep(p) ==
    IF p # "" /\ CharAt(p, Len(p)) = "/" THEN rstrip_sep(SubSeq(p, 1, Len(p) - 1)) ELSE p

\* os.path.split(p): <<head, tail>>, tail is what follows the last separator
os_path_split(p) ==
    Let(LastSep(p), LAMBDA i :
    Let(rstrip_sep(SubSeq(p, 1, i)), LAMBDA head :
        <<IF head = "" THEN SubSeq(p, 1, i) ELSE head, SubSeq(p, i + 1, Len(p))>>))

-----------------------------------------------------------------------------
(* Configuration *)

\* root of all subjects' data; a short root ending in the separator, as the configured one does
data_path == "/d/"

subject_name == "rat1"

Configs ==
    { [epochs |-> <<"r">>, cameras |-> <<"1">>],
      [epochs |-> <<"sleep", "run">>,
       cameras |-> <<"0", "1">>],
      [epochs |-> <<"a", "b", "c">>,
       cameras |-> <<"0", "1", "2">>] }

file_types == <<"raw", "metadata", "yml", "nwb", "video">>

-----------------------------------------------------------------------------
(* Naming grammar: FileNameHelper *)

\* the row of the epoch before: the type and the cycle of idx - 1
epoch_name_info_row_shifted(idx) ==
    LET k == Len(epoch_names_list)
        epoch_type_idx == (idx - 1) % k
    IN  [epoch_number |-> "0" \o str(idx),
         epoch_name |-> epoch_names_list[epoch_type_idx + 1] \o str((idx - 1) \div k),
         camera_name |-> camera_names_list[epoch_type_idx + 1]]

\* a cycle number that advances with the number of indices asked so far
epoch_name_info_row_counting(idx) ==
    LET k == Len(epoch_names_list)
        epoch_type_idx == idx % k
        asked == Cardinality({i \in DOMAIN seen_epoch_info :
                                seen_epoch_info[i].py # "none"})
    IN  [epoch_number |-> "0" \o str(idx),
         epoch_name |-> epoch_names_list[epoch_type_idx + 1] \o str((idx \div k) + asked),
         camera_name |-> camera_names_list[epoch_type_idx + 1]]

\* an epoch number padded to two digits and no further
epoch_name_info_row_two_digits(idx) ==
    LET k == Len(epoch_names_list)
        epoch_type_idx == idx % k
    IN  [epoch_number |-> IF idx < 10 THEN "0" \o str(idx) ELSE str(idx),
         epoch_name |-> epoch_names_list[epoch_type_idx + 1] \o str(idx \div k),
         camera_name |-> camera_names_list[epoch_type_idx + 1]]

\* one row of the epoch table for a positive int idx
epoch_name_info_row(idx) ==
    LET k == Len(epoch_names_list)
        epoch_type_idx == idx % k
        epoch_type == epoch_names_list[epoch_type_idx + 1]
        camera_name == camera_names_list[epoch_type_idx + 1]
        cycle_number == str(idx \div k)
    IN  [epoch_number |-> "0" \o str(idx),
         epoch_name |-> epoch_type \o cycle_number,
         camera_name |-> camera_name]

\* a test that lets the index zero through
IsNonNegativeInt(idx) == idx.py = "int" /\ idx.v >= 0

\* type(idx) == int and idx > 0, for an item idx of the list of indices
IsPositiveInt(idx) == idx.py = "int" /\ idx.v > 0

\* parse_iterable_inputs(epoch_idx): the items of a list of indices keep their types;
\* None stays None
epoch_idx_items(epoch_idx) ==
    IF epoch_idx.py = "list" THEN epoch_idx.v ELSE <<epoch_idx>>

\* get_epoch_name_info(epoch_idx): a table with one row per index, or ValueError;
\* len(None) is a TypeError
get_epoch_name_info(epoch_idx) ==
    IF epoch_idx.py = "none" THEN Raise("TypeError")
    ELSE
    Let(epoch_idx_items(epoch_idx), LAMBDA idxs :
        IF \E n \in 1..Len(idxs) : ~IsPositiveInt(idxs[n])
        THEN Raise("ValueError")
        ELSE Ok([n \in 1..Len(idxs) |-> epoch_name_info_row(idxs[n].v)] \o <<>>))

_get_epoch_infix(epoch_number, epoch_name) ==
    "_" \o epoch_number \o "_" \o epoch_name

\* a camera infix joined by an underscore
_get_camera_infix_underscore(camera_name) ==
    "_" \o camera_name

_get_camera_infix(camera_name) ==
    "." \o camera_name

\* a prefix that takes the epoch number and name of an epoch index and leaves its
\* camera out
get_file_name_prefix_camera_left_out(date, epoch_idx, epoch_number, epoch_name, camera_name) ==
    IF Truthy(epoch_idx)
       /\ (Truthy(epoch_number) \/ Truthy(epoch_name) \/ Truthy(camera_name))
    THEN Raise("ValueError")
    ELSE IF \/ Truthy(epoch_number) /\ ~Truthy(epoch_name)
            \/ ~Truthy(epoch_number) /\ Truthy(epoch_name)
    THEN Raise("ValueError")
    ELSE IF Truthy(camera_name) /\ ~(Truthy(epoch_number) /\ Truthy(epoch_name))
    THEN Raise("ValueError")
    ELSE
    LET info == IF Truthy(epoch_idx) THEN get_epoch_name_info(epoch_idx) ELSE Ok(<<>>)
    IN  IF info.err # "" THEN info
        ELSE
        LET number == IF Truthy(epoch_idx) THEN PyStr(info.v[1].epoch_number) ELSE epoch_number
            name == IF Truthy(epoch_idx) THEN PyStr(info.v[1].epoch_name) ELSE epoch_name
            name_prefix == date \o "_" \o subject_name
            with_epoch == IF Truthy(number) /\ Truthy(name)
                          THEN name_prefix \o _get_epoch_infix(number.v, name.v)
                          ELSE name_prefix
        IN  Ok(IF Truthy(number) /\ Truthy(name) /\ Truthy(camera_name)
               THEN with_epoch \o _get_camera_infix(camera_name.v)
               ELSE with_epoch)

\* get_file_name_prefix(date, epoch_idx, epoch_number, epoch_name, camera_name);
\* an argument left out is None
get_file_name_prefix(date, epoch_idx, epoch_number, epoch_name, camera_name) ==
    IF Truthy(epoch_idx)
       /\ (Truthy(epoch_number) \/ Truthy(epoch_name) \/ Truthy(camera_name))
    THEN Raise("ValueError")
    ELSE IF \/ Truthy(epoch_number) /\ ~Truthy(epoch_name)
            \/ ~Truthy(epoch_number) /\ Truthy(epoch_name)
    THEN Raise("ValueError")
    ELSE IF Truthy(camera_name) /\ ~(Truthy(epoch_number) /\ Truthy(epoch_name))
    THEN Raise("ValueError")
    ELSE
    LET info == IF Truthy(epoch_idx) THEN get_epoch_name_info(epoch_idx) ELSE Ok(<<>>)
    IN  IF info.err # "" THEN info
        ELSE
        LET number == IF Truthy(epoch_idx) THEN PyStr(info.v[1].epoch_number) ELSE epoch_number
            name == IF Truthy(epoch_idx) THEN PyStr(info.v[1].epoch_name) ELSE epoch_name
            camera == IF Truthy(epoch_idx) THEN PyStr(info.v[1].camera_name) ELSE camera_name
            name_prefix == date \o "_" \o subject_name
            with_epoch == IF Truthy(number) /\ Truthy(name)
                          THEN name_prefix \o _get_epoch_infix(number.v, name.v)
                          ELSE name_prefix
        IN  Ok(IF Truthy(number) /\ Truthy(name) /\ Truthy(camera)
               THEN with_epoch \o _get_camera_infix(camera.v)
               ELSE with_epoch)

-----------------------------------------------------------------------------
(* Extension tables and expected names: FileNameHelper *)

\* a dict is the sequence of its items in insertion order
Item(k, x) == [k |-> k, v |-> x]
dict_values(d) == Map(d, LAMBDA item : item.v)
dict_keys(d) == Map(d, LAMBDA item : item.k)

\* zip(a, b): pairs position by position, as long as the shorter one
zip(a, b) ==
    Let(a, LAMBDA l : Let(b, LAMBDA r :
        [n \in 1..(IF Len(l) <= Len(r) THEN Len(l) ELSE Len(r)) |-> <<l[n], r[n]>>]
            \o <<>>))

ext_trodesconf == ".trodesconf"
ext_rec == ".rec"
ext_stateScriptLog == ".stateScriptLog"
ext_h264 == ".h264"
ext_videoPositionTracking ==
    ".videoPositionTracking"
ext_videoTimeStamps ==
    ".videoTimeStamps.cameraHWSync"
ext_tetrode == "tetrode_12.5.yml"
ext_cannula_diagram ==
    "_cannula_diagram.svg"
ext_electrode_arrangement ==
    "_electrode_arrangement.svg"
ext_dio_events == "_dio_events.csv"
ext_electrode_info ==
    "_electrode_info.csv"
ext_session_info == "_session_info.csv"
ext_subject_info == "_subject_info.csv"
ext_yml == ".yml"
ext_nwb == ".nwb"

\* _create_file_name_extensions()[file_type]: the extensions of a file type and
\* which of them go with an epoch, a camera, a subject
_create_file_name_extensions(file_type) ==
    CASE file_type = "raw" ->
           [extensions |-> <<ext_trodesconf, ext_rec, ext_stateScriptLog, ext_h264,
                             ext_videoPositionTracking, ext_videoTimeStamps>>,
            associations |-> PyList(<<
                Item("epoch", <<ext_rec, ext_h264, ext_stateScriptLog,
                                ext_videoPositionTracking, ext_videoTimeStamps>>),
                Item("camera", <<ext_h264, ext_videoPositionTracking,
                                 ext_videoTimeStamps>>)>>),
            prefixes |-> <<>>, infixes |-> <<>>, suffixes |-> <<>>,
            default_prefix |-> ""]
      [] file_type = "metadata" ->
           [extensions |-> <<ext_tetrode, ext_cannula_diagram, ext_electrode_arrangement,
                             ext_dio_events, ext_electrode_info, ext_session_info,
                             ext_subject_info>>,
            associations |-> PyList(<<
                Item("subject", <<ext_cannula_diagram, ext_electrode_arrangement,
                                  ext_dio_events, ext_electrode_info, ext_session_info,
                                  ext_subject_info>>)>>),
            prefixes |-> <<>>, infixes |-> <<>>, suffixes |-> <<>>,
            default_prefix |-> ""]
      [] file_type = "yml" ->
           [extensions |-> <<ext_yml>>, associations |-> None,
            prefixes |-> <<>>, infixes |-> <<>>, suffixes |-> <<>>,
            default_prefix |-> ""]
      [] file_type = "nwb" ->
           [extensions |-> <<ext_nwb>>, associations |-> None,
            prefixes |-> <<>>, infixes |-> <<>>, suffixes |-> <<>>,
            default_prefix |-> ""]
      [] file_type = "video" ->
           [extensions |-> <<ext_h264>>, associations |-> None,
            prefixes |-> <<>>, infixes |-> <<>>, suffixes |-> <<>>,
            default_prefix |-> ""]

\* every fragment, whatever the association lists hold
matching_parts_unfiltered(parts, associations, file_type) == parts

\* the fragments of `parts` that zip() pairs with an association list holding file_type
matching_parts(parts, associations, file_type) ==
    LET holds(pair) == file_type \in Range(pair[2])
    IN  Map(SelectSeq(zip(parts, associations), holds), LAMBDA pair : pair[1])

\* the name _create_expected_file_names builds for one extension
expected_file_name(name_parts_dict, file_type) ==
    Let(IF name_parts_dict.associations.py # "none"
        THEN dict_values(name_parts_dict.associations.v) ELSE <<>>,
        LAMBDA associations :
        LET prefixes == dict_values(name_parts_dict.prefixes)
            infixes == dict_values(name_parts_dict.infixes)
            suffixes == dict_values(name_parts_dict.suffixes)
            prefix_list == matching_parts(prefixes, associations, file_type)
            infix_list == matching_parts(infixes, associations, file_type)
            suffix_list == matching_parts(suffixes, associations, file_type)
        IN  name_parts_dict.default_prefix
                \o join(prefix_list \o infix_list \o suffix_list) \o file_type)

\* _create_expected_file_names(name_parts_dict): the names as a list without repeats;
\* a key the dict lacks is the empty dict, the empty prefix
_create_expected_file_names(name_parts_dict) ==
    Let(name_parts_dict, LAMBDA d :
        SetToList({expected_file_name(d, x) : x \in Range(d.extensions)}))

\* the comparison without the assertion on file_names
compare_file_names_unchecked_names(file_names_arg, valid_names_arg) ==
    Let(parse_iterable_inputs(file_names_arg), LAMBDA names :
    Let(parse_iterable_inputs(valid_names_arg), LAMBDA valid_names :
        IF ~IsUnique(valid_names) THEN Raise("AssertionError")
        ELSE Ok(<<SetToList(Range(valid_names) \cap Range(names)),
                  SetToList(Range(valid_names) \ Range(names))>>)))

\* compare_file_names(file_names, valid_names): <<matching, missing>>, or
\* AssertionError when one of the two lists repeats a name
compare_file_names(file_names_arg, valid_names_arg) ==
    Let(parse_iterable_inputs(file_names_arg), LAMBDA names :
    Let(parse_iterable_inputs(valid_names_arg), LAMBDA valid_names :
        IF ~IsUnique(valid_names) THEN Raise("AssertionError")
        ELSE IF ~IsUnique(names) THEN Raise("AssertionError")
        ELSE LET file_names_diff == Range(valid_names) \ Range(names)
                 file_names_match == Range(valid_names) \cap Range(names)
             IN  Ok(<<SetToList(file_names_match), SetToList(file_names_diff)>>)))

-----------------------------------------------------------------------------
(* Tables of names: FileNameHelper *)

\* convert_names_to_full_names(path_name, file_names)
convert_names_to_full_names(path_name, names) ==
    parse_iterable_outputs(
        Map(parse_iterable_inputs(names), LAMBDA name : os_path_join(path_name, name)))

\* convert_full_names_to_names(full_names): <<path_names, file_names>>
convert_full_names_to_names(full_names) ==
    Let(Map(parse_iterable_inputs(full_names), os_path_split), LAMBDA file_name_data :
        IF file_name_data = <<>> THEN <<PyList(<<>>), PyList(<<>>)>>
        ELSE <<parse_iterable_outputs(Map(file_name_data, LAMBDA data : data[1])),
               parse_iterable_outputs(Map(file_name_data, LAMBDA data : data[2]))>>)

\* the rows pd.DataFrame.from_dict builds for one path and its names: one row per
\* item of the path_name column, which has len(names) items; a column given as one
\* str is repeated on every row
file_name_info_rows(path_name, names) ==
    Let(convert_names_to_full_names(path_name, names), LAMBDA full_names :
        [n \in 1..PyLen(names) |->
            [path_name |-> path_name,
             file_name |-> IF names.py = "str" THEN names.v ELSE names.v[n],
             full_name |-> IF full_names.py = "str" THEN full_names.v
                           ELSE full_names.v[n]]] \o <<>>)

\* get_file_name_info(path_names, file_names): file_names holds one group of names
\* per path; len(None) is a TypeError, pd.concat of no table a ValueError
get_file_name_info(path_names_arg, file_names_arg) ==
    Let(parse_iterable_inputs(path_names_arg), LAMBDA paths :
    Let(parse_iterable_inputs(file_names_arg), LAMBDA groups :
        IF Len(paths) # 1 /\ Len(paths) # Len(groups) THEN Raise("ValueError")
        ELSE IF \E n \in 1..Len(groups) : groups[n].py = "none" THEN Raise("TypeError")
        ELSE IF groups = <<>> THEN Raise("ValueError")
        ELSE Ok(Concat(MapIndexed(groups, LAMBDA n, names :
                    file_name_info_rows(IF Len(paths) = 1 THEN paths[1] ELSE paths[n],
                                        names))))))

\* file_names_df['file_type'] = file_type
with_file_type(rows, file_type) ==
    Map(rows, LAMBDA row :
        [path_name |-> row.path_name, file_name |-> row.file_name,
         full_name |-> row.full_name, file_type |-> file_type])

-----------------------------------------------------------------------------
(* Paths: FileNameHelper.  self is the helper: its dates, _n_epochs, _path_names *)
(* and _expected_file_names                                                     *)

dir_raw == "raw"
dir_metadata == "metadata"
dir_yml == "yml"
dir_nwb == "nwb"
dir_video == "video"

\* DataReader._sessions_path
_sessions_path == os_path_join(os_path_join(data_path, subject_name), dir_raw)

\* the raw directories of the dates, last date first
_get_raw_path_reversed(self) ==
    [n \in 1..Len(self.dates) |->
        os_path_join(_sessions_path, self.dates[Len(self.dates) + 1 - n])] \o <<>>

_get_raw_path(self) ==
    Map(self.dates, LAMBDA date : os_path_join(_sessions_path, date))

_get_metadata_path ==
    <<os_path_join(os_path_join(data_path, subject_name), dir_metadata)>>

_get_yml_files_path ==
    <<os_path_join(_get_metadata_path[1], dir_yml)>>

_get_nwb_files_path ==
    <<os_path_join(os_path_join(os_path_join(data_path, subject_name), dir_nwb), dir_raw)>>

_get_video_files_path ==
    <<os_path_join(os_path_join(os_path_join(data_path, subject_name), dir_nwb), dir_video)>>

\* FileNameHelper._get_path_names_by_type(file_type): rows path_name, file_type
FileNameHelper_get_path_names_by_type(self, file_type) ==
    Map(CASE file_type = "raw" -> _get_raw_path(self)
          [] file_type = "metadata" -> _get_metadata_path
          [] file_type = "yml" -> _get_yml_files_path
          [] file_type = "nwb" -> _get_nwb_files_path
          [] file_type = "video" -> _get_video_files_path,
        LAMBDA path_name : [path_name |-> path_name, file_type |-> file_type])

\* FileNameHelper._update_path_names: the value given to _path_names
FileNameHelper_update_path_names(self) ==
    Concat(Map(file_types, LAMBDA file_type :
                   FileNameHelper_get_path_names_by_type(self, file_type)))

-----------------------------------------------------------------------------
(* Expected names: FileNameHelper *)

\* a dict whose infixes are stored camera first
raw_name_parts_camera_first(date, epoch_idx) ==
    Let(get_epoch_name_info(PyInt(epoch_idx)).v[1], LAMBDA epoch_info :
        [_create_file_name_extensions("raw") EXCEPT
            !.infixes = <<Item("camera", _get_camera_infix(epoch_info.camera_name)),
                          Item("epoch", _get_epoch_infix(epoch_info.epoch_number,
                                                          epoch_info.epoch_name))>>,
            !.default_prefix = get_file_name_prefix(date, None, None, None, None).v])

\* the dict _get_expected_raw_file_names hands over for one date and one epoch
raw_name_parts(date, epoch_idx) ==
    Let(get_epoch_name_info(PyInt(epoch_idx)).v[1], LAMBDA epoch_info :
        [_create_file_name_extensions("raw") EXCEPT
            !.infixes = <<Item("epoch", _get_epoch_infix(epoch_info.epoch_number,
                                                          epoch_info.epoch_name)),
                          Item("camera", _get_camera_infix(epoch_info.camera_name))>>,
            !.default_prefix = get_file_name_prefix(date, None, None, None, None).v])

\* the names of all epochs of a date one after the other, repeats kept
_get_expected_raw_file_names_chained(self) ==
    MapIndexed(self.dates, LAMBDA ndx, date :
        PyList(Concat([epoch_idx \in 1..self._n_epochs[ndx] |->
            _create_expected_file_names(raw_name_parts(date, epoch_idx))])))

\* _get_expected_raw_file_names: per date, the names of all its epochs merged
_get_expected_raw_file_names(self) ==
    MapIndexed(self.dates, LAMBDA ndx, date :
        PyList(SetToList(UNION {
            Range(_create_expected_file_names(raw_name_parts(date, epoch_idx))) :
                epoch_idx \in 1..self._n_epochs[ndx]})))

_get_expected_metadata_file_names(self) ==
    <<PyList(_create_expected_file_names(
        [_create_file_name_extensions("metadata") EXCEPT
            !.prefixes = <<Item("subject", subject_name)>>]))>>

_get_expected_yml_file_names(self) ==
    Map(self.dates, LAMBDA date :
        PyList(_create_expected_file_names(
            [_create_file_name_extensions("yml") EXCEPT
                !.default_prefix =
                    get_file_name_prefix(date, None, None, None, None).v])))

_get_expected_nwb_file_names(self) ==
    Map(self.dates, LAMBDA date :
        PyList(_create_expected_file_names(
            [_create_file_name_extensions("nwb") EXCEPT
                !.default_prefix = subject_name \o "_" \o date])))

\* a loop whose names carry the epoch of the last pass and no camera
video_epoch_loop_camera_left_out(date, epoch_idx, n, current) ==
    IF epoch_idx > n THEN current
    ELSE PyList(_create_expected_file_names(
            [_create_file_name_extensions("video") EXCEPT
                !.default_prefix =
                    get_file_name_prefix(date, None,
                        PyStr(epoch_name_info_row(n).epoch_number),
                        PyStr(epoch_name_info_row(n).epoch_name), None).v]))

RECURSIVE video_epoch_loop(_, _, _, _)
\* the loop over epoch_idx in range(1, n_epochs+1) of _get_expected_video_file_names:
\* each pass assigns file_names[ndx]
video_epoch_loop(date, epoch_idx, n, current) ==
    IF epoch_idx > n THEN current
    ELSE video_epoch_loop(date, epoch_idx + 1, n,
            PyList(_create_expected_file_names(
                [_create_file_name_extensions("video") EXCEPT
                    !.default_prefix =
                        get_file_name_prefix(date, PyInt(epoch_idx), None, None, None).v])))

\* _get_expected_video_file_names: file_names[ndx] starts as None
_get_expected_video_file_names(self) ==
    MapIndexed(self.dates, LAMBDA ndx, date :
        video_epoch_loop(date, 1, self._n_epochs[ndx], None))

\* _get_expected_file_names_by_type(file_type): rows, or what get_file_name_info raises
_get_expected_file_names_by_type(self, file_type) ==
    Let(CASE file_type = "raw" -> _get_expected_raw_file_names(self)
          [] file_type = "metadata" -> _get_expected_metadata_file_names(self)
          [] file_type = "yml" -> _get_expected_yml_file_names(self)
          [] file_type = "nwb" -> _get_expected_nwb_file_names(self)
          [] file_type = "video" -> _get_expected_video_file_names(self),
        LAMBDA names :
    Let(FileNameHelper_get_path_names_by_type(self, file_type), LAMBDA type_paths :
    Let(IF file_type # "raw"
        THEN Map(names, LAMBDA group : type_paths[1].path_name)
        ELSE Map(type_paths, LAMBDA row : row.path_name),
        LAMBDA paths :
    Let(get_file_name_info(PyList(paths), PyList(names)), LAMBDA info :
        IF info.err # "" THEN info ELSE Ok(with_file_type(info.v, file_type))))))

\* the first error among results, "" when there is none
FirstErr(results) ==
    Let(SelectSeq(results, LAMBDA r : r.err # ""), LAMBDA bad :
        IF bad = <<>> THEN "" ELSE bad[1].err)

\* the tables of all file types put together, or the error of the first file type
\* that raises
all_types(results) ==
    Let(results, LAMBDA by_type :
    Let(FirstErr(by_type), LAMBDA err :
        IF err # "" THEN Raise(err) ELSE Ok(Concat(Map(by_type, LAMBDA r : r.v)))))

\* FileNameHelper._update_expected_file_names: the value given to
\* _expected_file_names, or the error of the first file type that raises
FileNameHelper_update_expected_file_names(self) ==
    all_types(Map(file_types, LAMBDA file_type :
                      _get_expected_file_names_by_type(self, file_type)))

-----------------------------------------------------------------------------
(* The directory tree.  fs maps every directory that exists to the names of the  *)
(* regular files in it; the subdirectories of a directory are the directories    *)
(* of fs right below it.                                                         *)

norm(p) == IF rstrip_sep(p) = "" THEN p ELSE rstrip_sep(p)

path_exists(p) == norm(p) \in DOMAIN fs

\* a scan that lists the folders of a directory with its files
file_entries_with_folders(p) ==
    Let(norm(p), LAMBDA q :
        fs[q] \cup {os_path_split(d)[2] :
                        d \in {e \in DOMAIN fs : e # q /\ os_path_split(e)[1] = q}})

\* [file.name for file in os.scandir(p) if file.is_file()]
file_entries(p) == fs[norm(p)]

\* [folder.name for folder in os.scandir(p) if folder.is_dir()]
dir_entries(p) ==
    Let(norm(p), LAMBDA q :
        {os_path_split(d)[2] :
            d \in {e \in DOMAIN fs : e # q /\ os_path_split(e)[1] = q}})

\* a pattern '^' + prefix + '.*' + suffix + '$' whose prefix and suffix are literal
Pattern(prefix, suffix) == [prefix |-> prefix, suffix |-> suffix]

\* re.fullmatch(pattern, name)
re_fullmatch(pattern, name) ==
    /\ Len(pattern.prefix) + Len(pattern.suffix) <= Len(name)
    /\ StartsWith(name, pattern.prefix)
    /\ EndsWith(name, pattern.suffix)

\* filter_file_names(file_names, pattern, full_match=True)
filter_file_names(names, pattern) ==
    LET keep(name) == re_fullmatch(pattern, name)
    IN  SelectSeq(names, keep)

\* a scan that takes a directory that does not exist for an empty one
filter_dir_file_names_lenient(path_name, pattern) ==
    IF path_name.py # "str" THEN Raise("TypeError")
    ELSE IF ~path_exists(path_name.v) THEN Ok(<<>>)
    ELSE Ok(filter_file_names(SetToList(file_entries(path_name.v)), pattern))

\* filter_dir_file_names(path_name, pattern, full_match=True); os.scandir raises on a
\* directory that does not exist and on a list of paths
filter_dir_file_names(path_name, pattern) ==
    IF path_name.py # "str" THEN Raise("TypeError")
    ELSE IF ~path_exists(path_name.v) THEN Raise("FileNotFoundError")
    ELSE Ok(filter_file_names(SetToList(file_entries(path_name.v)), pattern))

-----------------------------------------------------------------------------
(* DataReader *)

\* _validate_subject_name(subject_name): the error it raises, "" when it returns
_validate_subject_name ==
    IF ~path_exists(data_path) THEN "FileNotFoundError"
    ELSE IF subject_name \notin dir_entries(data_path) THEN "ValueError"
    ELSE ""

\* a validation of dates that lets a repeated date through
_validate_dates_repeats_allowed(dates_list) ==
    IF ~path_exists(_sessions_path) THEN "FileNotFoundError"
    ELSE IF Range(dates_list) \ dir_entries(_sessions_path) # {} THEN "ValueError"
    ELSE ""

\* _validate_dates(dates): the error it raises, "" when it returns; the order of
\* get_session_dates() is not read
_validate_dates(dates_list) ==
    IF ~IsUnique(dates_list) THEN "ValueError"
    ELSE IF ~path_exists(_sessions_path) THEN "FileNotFoundError"
    ELSE IF Range(dates_list) \ dir_entries(_sessions_path) # {} THEN "ValueError"
    ELSE ""

\* get_number_of_epochs(): the number of names matching '^.*\.rec$' per date
get_number_of_epochs(dates_list) ==
    [ndx \in 1..Len(dates_list) |->
        Cardinality({name \in file_entries(os_path_join(_sessions_path, dates_list[ndx])) :
                        re_fullmatch(Pattern("", ext_rec), name)})]

\* the checks DataReader.update() makes before _update()
update_validation(self) ==
    Let(_validate_subject_name, LAMBDA invalid :
        IF invalid # "" THEN invalid ELSE _validate_dates(self.dates))

\* FileNameHelper.update(): what it raises and the helper it leaves
FileNameHelper_update(self) ==
    Let(update_validation(self), LAMBDA invalid :
        IF invalid # "" THEN [err |-> invalid, self |-> self]
        ELSE
        Let([self EXCEPT !._path_names = DataFrame(FileNameHelper_update_path_names(self))],
            LAMBDA s1 :
        Let(FileNameHelper_update_expected_file_names(s1), LAMBDA x :
            IF x.err # "" THEN [err |-> x.err, self |-> s1]
            ELSE [err |-> "",
                  self |-> [s1 EXCEPT !._expected_file_names = DataFrame(x.v)]])))

-----------------------------------------------------------------------------
(* FileInfo.  self is the FileInfo: dates, _n_dates, _n_epochs, its helper         *)
(* _file_name_helper and its five tables                                           *)

\* FileInfo._get_path_names_by_type(file_type): one str when the type has one path
FileInfo_get_path_names_by_type(self, file_type) ==
    IF self._path_names.py = "none" THEN Raise("AttributeError")
    ELSE LET of_type(row) == row.file_type = file_type
         IN  Ok(parse_iterable_outputs(
                    Map(SelectSeq(self._path_names.v, of_type), LAMBDA row : row.path_name)))

\* the scans of a directory once per date, or the first error among them
scan_per_date(self, path_name, pattern_of(_)) ==
    Let(Map(self.dates, LAMBDA date : filter_dir_file_names(path_name, pattern_of(date))),
        LAMBDA scans :
    Let(FirstErr(scans), LAMBDA err :
        IF err # "" THEN Raise(err) ELSE Ok(Map(scans, LAMBDA scan : PyList(scan.v)))))

date_subject(date) == get_file_name_prefix(date, None, None, None, None).v

\* a yml pattern that leaves the date out
yml_pattern_any_date(date) == Pattern("", ext_yml)

raw_pattern(date) == Pattern(date_subject(date), "")
yml_pattern(date) == Pattern(date_subject(date), ext_yml)
nwb_pattern(date) == Pattern(subject_name \o "_" \o date, ext_nwb)
video_pattern(date) == Pattern(date_subject(date), ext_h264)

_get_raw_file_names(self) ==
    Let(FileInfo_get_path_names_by_type(self, "raw"), LAMBDA p :
        IF p.err # "" THEN p
        ELSE
        Let(parse_iterable_inputs(p.v), LAMBDA paths :
            IF self._n_dates # Len(paths) THEN Raise("AssertionError")
            ELSE
            Let(MapIndexed(self.dates, LAMBDA ndx, date :
                    filter_dir_file_names(PyStr(paths[ndx]), raw_pattern(date))),
                LAMBDA scans :
            Let(FirstErr(scans), LAMBDA err :
                IF err # "" THEN Raise(err)
                ELSE Ok(Map(scans, LAMBDA scan : PyList(scan.v)))))))

_get_metadata_file_names(self) ==
    Let(FileInfo_get_path_names_by_type(self, "metadata"), LAMBDA p :
        IF p.err # "" THEN p
        ELSE Let(filter_dir_file_names(p.v, Pattern("", "")), LAMBDA scan :
                 IF scan.err # "" THEN scan ELSE Ok(<<PyList(scan.v)>>)))

_get_yml_file_names(self) ==
    Let(FileInfo_get_path_names_by_type(self, "yml"), LAMBDA p :
        IF p.err # "" THEN p ELSE scan_per_date(self, p.v, yml_pattern))

_get_nwb_file_names(self) ==
    Let(FileInfo_get_path_names_by_type(self, "nwb"), LAMBDA p :
        IF p.err # "" THEN p ELSE scan_per_date(self, p.v, nwb_pattern))

_get_video_file_names(self) ==
    Let(FileInfo_get_path_names_by_type(self, "video"), LAMBDA p :
        IF p.err # "" THEN p ELSE scan_per_date(self, p.v, video_pattern))

\* _get_file_names_by_type(file_type): the rows of the files found
_get_file_names_by_type(self, file_type) ==
    Let(CASE file_type = "raw" -> _get_raw_file_names(self)
          [] file_type = "metadata" -> _get_metadata_file_names(self)
          [] file_type = "yml" -> _get_yml_file_names(self)
          [] file_type = "nwb" -> _get_nwb_file_names(self)
          [] file_type = "video" -> _get_video_file_names(self),
        LAMBDA names :
        IF names.err # "" THEN names
        ELSE
        Let(get_file_name_info(FileInfo_get_path_names_by_type(self, file_type).v,
                               PyList(names.v)),
            LAMBDA info :
            IF info.err # "" THEN info ELSE Ok(with_file_type(info.v, file_type))))

\* the table FileInfo._update_file_names builds
file_names_table(self) ==
    all_types(Map(file_types, LAMBDA file_type : _get_file_names_by_type(self, file_type)))

\* the full names a table holds for a file type and a path
full_names_at(table, file_type, path_name) ==
    LET at(row) == row.file_type = file_type /\ row.path_name = path_name
    IN  Map(SelectSeq(table, at), LAMBDA row : row.full_name)

\* _get_matching_and_missing_file_names(file_type): per path, the matching names
\* and the missing names, each one str or a list
_get_matching_and_missing_file_names(self, file_type) ==
    Let(FileInfo_get_path_names_by_type(self, file_type), LAMBDA p :
        IF p.err # "" THEN p
        ELSE
        Let(parse_iterable_inputs(p.v), LAMBDA paths :
            IF paths # <<>> /\ ( \/ self._file_names.py = "none"
                                 \/ self._expected_file_names.py = "none" )
            THEN Raise("AttributeError")
            ELSE
            Let(Map(paths, LAMBDA path_name :
                    compare_file_names(
                        PyList(full_names_at(self._file_names.v, file_type, path_name)),
                        PyList(full_names_at(self._expected_file_names.v, file_type,
                                             path_name)))),
                LAMBDA compared :
            Let(FirstErr(compared), LAMBDA err :
                IF err # "" THEN Raise(err)
                ELSE Ok([matching |-> Map(compared, LAMBDA c :
                            convert_full_names_to_names(PyList(c.v[1]))[2]),
                         missing |-> Map(compared, LAMBDA c :
                            convert_full_names_to_names(PyList(c.v[2]))[2])])))))

\* _get_matching_and_missing_file_names_by_type(file_type): the two tables
_get_matching_and_missing_file_names_by_type(self, file_type) ==
    Let(_get_matching_and_missing_file_names(self, file_type), LAMBDA names :
        IF names.err # "" THEN names
        ELSE
        Let(FileInfo_get_path_names_by_type(self, file_type), LAMBDA p :
        Let(get_file_name_info(p.v, PyList(names.v.matching)), LAMBDA matching :
            IF matching.err # "" THEN matching
            ELSE
            Let(get_file_name_info(p.v, PyList(names.v.missing)), LAMBDA missing :
                IF missing.err # "" THEN missing
                ELSE Ok([matching |-> with_file_type(matching.v, file_type),
                         missing |-> with_file_type(missing.v, file_type)])))))

\* the two tables FileInfo._update_matching_and_missing_file_names builds
matching_and_missing_tables(self) ==
    Let(Map(file_types, LAMBDA file_type :
                _get_matching_and_missing_file_names_by_type(self, file_type)),
        LAMBDA by_type :
    Let(FirstErr(by_type), LAMBDA err :
        IF err # "" THEN Raise(err)
        ELSE Ok([matching |-> Concat(Map(by_type, LAMBDA r : r.v.matching)),
                 missing |-> Concat(Map(by_type, LAMBDA r : r.v.missing))])))

-----------------------------------------------------------------------------
(* The methods of FileInfo that assign its tables: what each raises and the       *)
(* FileInfo it leaves                                                             *)

Returned(self) == [err |-> "", self |-> self]
Raised(e, self) == [err |-> e, self |-> self]

\* run step on what r left, unless r raised
Then(r, step(_)) == Let(r, LAMBDA done : IF done.err # "" THEN done ELSE step(done.self))

FileInfo_update_path_names(self) ==
    Let(FileNameHelper_update(self._file_name_helper), LAMBDA h :
        IF h.err # "" THEN Raised(h.err, [self EXCEPT !._file_name_helper = h.self])
        ELSE Returned([self EXCEPT !._file_name_helper = h.self,
                                   !._path_names = h.self._path_names]))

FileInfo_update_file_names(self) ==
    Let(file_names_table(self), LAMBDA t :
        IF t.err # "" THEN Raised(t.err, self)
        ELSE Returned([self EXCEPT !._file_names = DataFrame(t.v)]))

FileInfo_update_expected_file_names(self) ==
    Let(FileNameHelper_update(self._file_name_helper), LAMBDA h :
        IF h.err # "" THEN Raised(h.err, [self EXCEPT !._file_name_helper = h.self])
        ELSE Returned([self EXCEPT !._file_name_helper = h.self,
                                   !._expected_file_names = h.self._expected_file_names]))

FileInfo_update_matching_and_missing_file_names(self) ==
    Let(matching_and_missing_tables(self), LAMBDA t :
        IF t.err # "" THEN Raised(t.err, self)
        ELSE Returned([self EXCEPT !._matching_file_names = DataFrame(t.v.matching),
                                   !._missing_file_names = DataFrame(t.v.missing)]))

\* FileInfo._update()
FileInfo_update(self) ==
    Then(Then(Then(FileInfo_update_path_names(self),
                   FileInfo_update_file_names),
              FileInfo_update_expected_file_names),
         FileInfo_update_matching_and_missing_file_names)

\* a property that refreshes on every read
accessor_eager(self, attr) == FileInfo_update(self)

\* the properties path_names, file_names, expected_file_names, matching_file_names,
\* missing_file_names: attr is the attribute the property returns
accessor(self, attr) ==
    IF self[attr].py = "none" THEN FileInfo_update(self) ELSE Returned(self)

\* an update() that drops the tables before it validates
update_clearing(self) ==
    Let(update_validation(self), LAMBDA invalid :
        IF invalid # ""
        THEN Raised(invalid, [self EXCEPT !._matching_file_names = None,
                                          !._missing_file_names = None])
        ELSE FileInfo_update(self))

\* DataReader.update() of the FileInfo
update(self) ==
    Let(update_validation(self), LAMBDA invalid :
        IF invalid # "" THEN Raised(invalid, self) ELSE FileInfo_update(self))

\* verdicts that stop after the first path of the type that fails
_verify_file_names_by_type_until_fail(self, file_type) ==
    LET missing_at(path_name) ==
            LET at(row) == row.file_type = file_type /\ row.path_name = path_name
            IN  SelectSeq(self._missing_file_names.v, at)
        paths == parse_iterable_inputs(FileInfo_get_path_names_by_type(self, file_type).v)
        failing == {n \in 1..Len(paths) : missing_at(paths[n]) # <<>>}
        last == IF failing = {} THEN Len(paths)
                ELSE CHOOSE n \in failing : \A m \in failing : n <= m
    IN  [ndx \in 1..last |->
            [file_type |-> file_type,
             date |-> IF file_type = "raw" THEN self.dates[ndx] ELSE "all dates",
             pass_bool |-> missing_at(paths[ndx]) = <<>>]] \o <<>>

\* the verdicts _verify_file_names_by_type prints for a file type, one per path
_verify_file_names_by_type(self, file_type) ==
    LET missing_at(path_name) ==
            LET at(row) == row.file_type = file_type /\ row.path_name = path_name
            IN  SelectSeq(self._missing_file_names.v, at)
    IN  MapIndexed(parse_iterable_inputs(FileInfo_get_path_names_by_type(self, file_type).v),
            LAMBDA ndx, path_name :
            [file_type |-> file_type,
             date |-> IF file_type = "raw" THEN self.dates[ndx] ELSE "all dates",
             pass_bool |-> missing_at(path_name) = <<>>])

\* verify_file_names(): the FileInfo it leaves and the verdicts printed
verify_file_names(self) ==
    Let(FileInfo_update(self), LAMBDA r :
        IF r.err # "" THEN [err |-> r.err, self |-> r.self, v |-> <<>>]
        ELSE [err |-> "", self |-> r.self,
              v |-> Concat(Map(file_types, LAMBDA file_type :
                               _verify_file_names_by_type(r.self, file_type)))])

\* Series.str.contains(txt): txt is a regular expression searched in name; of its
\* characters only '.', which stands for any character, is not literal here
contains(name, txt) ==
    \E n \in 0..(Len(name) - Len(txt)) :
        \A m \in 1..Len(txt) :
            CharAt(txt, m) = "." \/ CharAt(txt, m) = CharAt(name, n + m)

\* the rows of a table whose file_name contains every pattern
filter_rows(rows, match_patterns) ==
    Let(match_patterns, LAMBDA patterns :
        SelectSeq(rows, LAMBDA row : \A n \in 1..Len(patterns) :
                                        contains(row.file_name, patterns[n])))

\* the search_* methods: the refresh each makes, then the filter; the rows of
\* _path_names have no file_name
search(self, attr, match_patterns_arg) ==
    Let(parse_iterable_inputs(match_patterns_arg), LAMBDA match_patterns :
    Let(CASE attr = "_path_names" -> FileInfo_update_path_names(self)
          [] attr = "_file_names" -> FileInfo_update_file_names(self)
          [] attr = "_expected_file_names" -> FileInfo_update_expected_file_names(self)
          [] attr \in {"_matching_file_names", "_missing_file_names"} ->
                 FileInfo_update_matching_and_missing_file_names(self),
        LAMBDA r :
        IF r.err # "" THEN [err |-> r.err, self |-> r.self, v |-> <<>>]
        ELSE IF attr = "_path_names" /\ match_patterns # <<>>
        THEN [err |-> "AttributeError", self |-> r.self, v |-> <<>>]
        ELSE [err |-> "", self |-> r.self,
              v |-> IF attr = "_path_names" THEN r.self[attr].v
                    ELSE filter_rows(r.self[attr].v, match_patterns)]))

-----------------------------------------------------------------------------
(* One FileInfo and the directory tree it reads *)

date1 == "20230101"
date2 == "20230102"

\* the dates a FileInfo is constructed with
DateLists == {<<date1>>, <<date1, date2>>}

\* the configured epoch and camera lists of the runs with a FileInfo
InstanceConfigs == {c \in Configs : Len(c.epochs) = 1}

subject_path == os_path_join(data_path, subject_name)
raw_path(date) == os_path_join(_sessions_path, date)

\* the names the recording software gives the files of epoch i of a date
epoch_file_name(date, i, ext) ==
    LET info == epoch_name_info_row(i)
    IN  date_subject(date) \o _get_epoch_infix(info.epoch_number, info.epoch_name) \o ext
camera_file_name(date, i, ext) ==
    LET info == epoch_name_info_row(i)
    IN  date_subject(date) \o _get_epoch_infix(info.epoch_number, info.epoch_name)
            \o _get_camera_infix(info.camera_name) \o ext

\* a file of the raw directory that no rule expects
notes_file_name(date) == date_subject(date) \o "_notes"

\* the tree a run starts with: n .rec files of date1
InitialTree(n) ==
    (norm(data_path) :> {})
    @@ (subject_path :> {})
    @@ (_sessions_path :> {})
    @@ (raw_path(date1) :>
            {date_subject(date1) \o ext_trodesconf}
            \cup {epoch_file_name(date1, i, ext_rec) : i \in 1..n})
    @@ (raw_path(date2) :>
            {epoch_file_name(date2, 1, ext_rec), camera_file_name(date2, 1, ext_h264)})
    @@ (_get_metadata_path[1] :> {ext_tetrode})
    @@ (_get_yml_files_path[1] :> {})
    @@ (os_path_join(subject_path, dir_nwb) :> {})
    @@ (_get_nwb_files_path[1] :> {subject_name \o "_" \o date1 \o ext_nwb})
    @@ (_get_video_files_path[1] :> {})

\* the files that appear and disappear while the FileInfo lives
ChangingFiles ==
    { [dir |-> raw_path(date1), name |-> epoch_file_name(date1, 2, ext_rec)],
      [dir |-> raw_path(date1), name |-> notes_file_name(date1)],
      [dir |-> _get_yml_files_path[1], name |-> date_subject(date1) \o ext_yml] }

\* the directories that disappear: one a scan per date reads, the raw directory of a
\* date, one that holds no file
ChangingDirs == {_get_yml_files_path[1], raw_path(date1), _get_video_files_path[1]}

Attrs == {"_path_names", "_file_names", "_expected_file_names",
          "_matching_file_names", "_missing_file_names"}

SearchPatterns == {PyList(<<date1, ext_rec>>)}

\* the FileInfo and its helper as the methods see them
Self ==
    [dates |-> dates, _n_dates |-> Len(dates), _n_epochs |-> n_epochs,
     _file_name_helper |->
        [dates |-> dates, _n_epochs |-> h_n_epochs, _path_names |-> h_path_names,
         _expected_file_names |-> h_expected_file_names],
     _path_names |-> path_names, _file_names |-> file_names,
     _expected_file_names |-> expected_file_names,
     _matching_file_names |-> matching_file_names,
     _missing_file_names |-> missing_file_names]

\* the attributes a method left
Assign(self) ==
    /\ h_path_names' = self._file_name_helper._path_names
    /\ h_expected_file_names' = self._file_name_helper._expected_file_names
    /\ path_names' = self._path_names
    /\ file_names' = self._file_names
    /\ expected_file_names' = self._expected_file_names
    /\ matching_file_names' = self._matching_file_names
    /\ missing_file_names' = self._missing_file_names
    /\ UNCHANGED <<config_vars, fs, dates, n_epochs, h_n_epochs, n_changes,
                   seen_epoch_info>>

\* FileInfo.__init__ on a tree where the subject and the dates are valid
Init ==
    /\ \E c \in InstanceConfigs :
        /\ epoch_names_list = c.epochs
        /\ camera_names_list = c.cameras
    /\ \E n \in 0..MaxEpochs : fs = InitialTree(n)
    /\ dates \in DateLists
    /\ n_epochs = get_number_of_epochs(dates)
    /\ h_n_epochs = get_number_of_epochs(dates)
    /\ h_path_names = None
    /\ h_expected_file_names = None
    /\ path_names = None
    /\ file_names = None
    /\ expected_file_names = None
    /\ matching_file_names = None
    /\ missing_file_names = None
    /\ op = [name |-> "__init__", arg |-> <<>>, err |-> ""]
    /\ ret = None
    /\ n_changes = 0
    /\ seen_epoch_info = <<>>

\* reading one of the five properties
Read ==
    \E attr \in Attrs :
        \E r \in {accessor(Self, attr)} :
            /\ Assign(r.self)
            /\ op' = [name |-> "read", arg |-> attr, err |-> r.err]
            /\ ret' = IF r.err = "" THEN r.self[attr] ELSE None

Update ==
    \E r \in {update(Self)} :
        /\ Assign(r.self)
        /\ op' = [name |-> "update", arg |-> <<>>, err |-> r.err]
        /\ ret' = None

Verify ==
    \E r \in {verify_file_names(Self)} :
        /\ Assign(r.self)
        /\ op' = [name |-> "verify_file_names", arg |-> <<>>, err |-> r.err]
        /\ ret' = IF r.err = "" THEN PyList(r.v) ELSE None

Search ==
    \E attr \in Attrs, match_patterns \in SearchPatterns :
        \E r \in {search(Self, attr, match_patterns)} :
            /\ Assign(r.self)
            /\ op' = [name |-> "search", arg |-> <<attr, match_patterns>>, err |-> r.err]
            /\ ret' = IF r.err = "" THEN DataFrame(r.v) ELSE None

\* the directory tree changes under the FileInfo
Changed ==
    /\ n_changes < MaxChanges
    /\ n_changes' = n_changes + 1
    /\ op' = [name |-> "changed", arg |-> <<>>, err |-> ""]
    /\ ret' = None
    /\ UNCHANGED <<config_vars, dates, n_epochs, h_n_epochs, h_path_names,
                   h_expected_file_names, path_names, file_names, expected_file_names,
                   matching_file_names, missing_file_names, seen_epoch_info>>

AddFile ==
    /\ \E f \in ChangingFiles :
        /\ f.dir \in DOMAIN fs
        /\ f.name \notin fs[f.dir]
        /\ fs' = [fs EXCEPT ![f.dir] = @ \cup {f.name}]
    /\ Changed

RemoveFile ==
    /\ \E f \in ChangingFiles :
        /\ f.dir \in DOMAIN fs
        /\ f.name \in fs[f.dir]
        /\ fs' = [fs EXCEPT ![f.dir] = @ \ {f.name}]
    /\ Changed

RemoveDir ==
    /\ \E d \in ChangingDirs :
        /\ d \in DOMAIN fs
        /\ fs' = [e \in DOMAIN fs \ {d} |-> fs[e]]
    /\ Changed

Next ==
    \/ Read
    \/ Update
    \/ Verify
    \/ Search
    \/ AddFile
    \/ RemoveFile
    \/ RemoveDir

Spec == Init /\ [][Next]_vars

-----------------------------------------------------------------------------
(* Calls of the naming functions on their own *)

\* fragment and association dicts handed to _create_expected_file_names: the keys
\* the callers use, in either order, and dicts holding only some of them
infix_epoch == "_01_r1"
infix_camera == ".1"
suffix_camera == "_c"

AssociationInputs ==
    { None,
      PyList(<<Item("epoch", <<ext_rec, ext_h264>>), Item("camera", <<ext_h264>>)>>),
      PyList(<<Item("camera", <<ext_h264>>), Item("epoch", <<ext_rec, ext_h264>>)>>),
      PyList(<<Item("subject", <<ext_yml>>)>>) }

InfixInputs ==
    { <<>>,
      <<Item("epoch", infix_epoch), Item("camera", infix_camera)>>,
      <<Item("camera", infix_camera), Item("epoch", infix_epoch)>>,
      <<Item("camera", infix_camera)>> }

NamePartsInputs ==
    [extensions : {<<ext_trodesconf, ext_rec, ext_h264>>, <<ext_yml>>},
     associations : AssociationInputs,
     prefixes : {<<>>, <<Item("subject", subject_name)>>},
     infixes : InfixInputs,
     suffixes : {<<>>, <<Item("camera", suffix_camera)>>},
     default_prefix : {"", "d_", date1 \o "_" \o subject_name}]

\* lists of at most MaxNames names, repeats allowed
NameInputs == {"a", "b"}
NameLists == UNION {[1..n -> NameInputs] : n \in 0..MaxNames}

\* the function a run applies and the input it is applied to
NamingInputs ==
    [fn : {"get_epoch_name_info"}, x : {<<i>> : i \in 1..MaxEpochIdx}]
    \cup [fn : {"_create_expected_file_names"}, x : NamePartsInputs]
    \cup [fn : {"compare_file_names"}, x : NameLists \X NameLists]
    \cup [fn : {"_update_matching_and_missing_file_names"}, x : NameLists \X NameLists]

\* the rows of a table for the names of one path
TableOf(names, file_type, path_name) ==
    Map(names, LAMBDA name :
        [path_name |-> path_name, file_name |-> name,
         full_name |-> os_path_join(path_name, name), file_type |-> file_type])

\* a FileInfo of date1 whose tables of actual and expected names hold the given
\* names for the yml path and nothing else, before any reconciliation
ReconcileSelf(actual, expected) ==
    [dates |-> <<date1>>, _n_dates |-> 1, _n_epochs |-> <<1>>,
     _file_name_helper |->
        [dates |-> <<date1>>, _n_epochs |-> <<1>>, _path_names |-> None,
         _expected_file_names |-> None],
     _path_names |-> DataFrame(FileNameHelper_update_path_names([dates |-> <<date1>>])),
     _file_names |-> DataFrame(TableOf(actual, "yml", _get_yml_files_path[1])),
     _expected_file_names |-> DataFrame(TableOf(expected, "yml", _get_yml_files_path[1])),
     _matching_file_names |-> None,
     _missing_file_names |-> None]

InitNaming ==
    /\ \E c \in Configs :
        /\ epoch_names_list = c.epochs
        /\ camera_names_list = c.cameras
    /\ fs = <<>>
    /\ dates = <<>>
    /\ n_epochs = <<>>
    /\ h_n_epochs = <<>>
    /\ h_path_names = None
    /\ h_expected_file_names = None
    /\ path_names = None
    /\ file_names = None
    /\ expected_file_names = None
    /\ matching_file_names = None
    /\ missing_file_names = None
    /\ \E input \in NamingInputs :
        op = [name |-> "input", arg |-> input, err |-> ""]
    /\ ret = <<>>
    /\ n_changes = 0
    /\ seen_epoch_info = <<>>

\* the drawn input is waiting for function fn
Drawn(fn) == op.name = "input" /\ op.arg.fn = fn

Call(name, arg, r) ==
    /\ op' = [name |-> name, arg |-> arg, err |-> r.err]
    /\ ret' = r.v

CallEpochInfo ==
    /\ Drawn("get_epoch_name_info")
    /\ Call("get_epoch_name_info", op.arg.x,
            get_epoch_name_info(PyInt(op.arg.x[1])))
    /\ UNCHANGED <<config_vars, instance_vars>>

CallCreateExpected ==
    /\ Drawn("_create_expected_file_names")
    /\ Call("_create_expected_file_names", op.arg.x,
            Ok(_create_expected_file_names(op.arg.x)))
    /\ UNCHANGED <<config_vars, instance_vars>>

CallCompare ==
    /\ Drawn("compare_file_names")
    /\ Call("compare_file_names", op.arg.x,
            compare_file_names(PyList(op.arg.x[1]), PyList(op.arg.x[2])))
    /\ UNCHANGED <<config_vars, instance_vars>>

CallReconcile ==
    /\ Drawn("_update_matching_and_missing_file_names")
    /\ \E r \in {FileInfo_update_matching_and_missing_file_names(
                        ReconcileSelf(op.arg.x[1], op.arg.x[2]))} :
        /\ op' = [name |-> "_update_matching_and_missing_file_names",
                  arg |-> op.arg.x, err |-> r.err]
        /\ ret' = <<r.self._matching_file_names, r.self._missing_file_names>>
    /\ UNCHANGED <<config_vars, instance_vars>>

NextNaming ==
    \/ CallEpochInfo
    \/ CallCreateExpected
    \/ CallCompare
    \/ CallReconcile

SpecNaming == InitNaming /\ [][NextNaming]_vars

-----------------------------------------------------------------------------
(* Calls of get_file_name_prefix and get_epoch_name_info on arguments of any *)
(* kind                                                                      *)

\* what a caller may hand over as an epoch index: nothing, an int that is zero,
\* negative or positive, a str, a float
EpochIdxInputs ==
    { None, PyInt(0), PyInt(0 - 1), PyInt(1), PyInt(3), PyStr("1"),
      PyFloat(0, 1), PyFloat(3, 2) }

\* lists of indices
EpochIdxListInputs ==
    { PyList(<<>>),
      PyList(<<PyInt(1), PyInt(2)>>),
      PyList(<<PyInt(1), PyInt(0)>>),
      PyList(<<PyInt(0 - 1), PyInt(2)>>),
      PyList(<<PyInt(2), PyStr("1")>>),
      PyList(<<PyInt(2), PyInt(1), PyFloat(3, 2)>>) }

PrefixInputs ==
    [date : {date1, date2},
     epoch_idx : EpochIdxInputs,
     epoch_number : {None, PyStr("01")},
     epoch_name : {None, PyStr("r1")},
     camera_name : {None, PyStr("1")}]

ArgInputs ==
    [fn : {"get_file_name_prefix"}, x : PrefixInputs]
    \cup [fn : {"get_epoch_name_info"}, x : EpochIdxInputs \cup EpochIdxListInputs]

InitArgs ==
    /\ \E c \in Configs :
        /\ epoch_names_list = c.epochs
        /\ camera_names_list = c.cameras
    /\ fs = <<>>
    /\ dates = <<>>
    /\ n_epochs = <<>>
    /\ h_n_epochs = <<>>
    /\ h_path_names = None
    /\ h_expected_file_names = None
    /\ path_names = None
    /\ file_names = None
    /\ expected_file_names = None
    /\ matching_file_names = None
    /\ missing_file_names = None
    /\ \E input \in ArgInputs :
        op = [name |-> "input", arg |-> input, err |-> ""]
    /\ ret = None
    /\ n_changes = 0
    /\ seen_epoch_info = <<>>

CallPrefix ==
    /\ Drawn("get_file_name_prefix")
    /\ \E x \in {op.arg.x} :
       \E r \in {get_file_name_prefix(x.date, x.epoch_idx, x.epoch_number,
                                      x.epoch_name, x.camera_name)} :
        /\ op' = [name |-> "get_file_name_prefix", arg |-> x, err |-> r.err]
        /\ ret' = IF r.err = "" THEN PyStr(r.v) ELSE None
    /\ UNCHANGED <<config_vars, instance_vars>>

CallEpochInfoOf ==
    /\ Drawn("get_epoch_name_info")
    /\ \E r \in {get_epoch_name_info(op.arg.x)} :
        /\ op' = [name |-> "get_epoch_name_info", arg |-> op.arg.x, err |-> r.err]
        /\ ret' = IF r.err = "" THEN DataFrame(r.v) ELSE None
    /\ UNCHANGED <<config_vars, instance_vars>>

NextArgs ==
    \/ CallPrefix
    \/ CallEpochInfoOf

SpecArgs == InitArgs /\ [][NextArgs]_vars

-----------------------------------------------------------------------------
(* One FileNameHelper of date1: get_epoch_name_info is asked the same        *)
(* indices again and again, between prefix derivations and updates           *)

InitHelper ==
    /\ \E c \in Configs :
        /\ epoch_names_list = c.epochs
        /\ camera_names_list = c.cameras
    /\ seen_epoch_info = [i \in 1..MaxAskedIdx |-> None]
    /\ \E n \in 1..MaxEpochs : fs = InitialTree(n)
    /\ dates = <<date1>>
    /\ n_epochs = get_number_of_epochs(dates)
    /\ h_n_epochs = get_number_of_epochs(dates)
    /\ h_path_names = None
    /\ h_expected_file_names = None
    /\ path_names = None
    /\ file_names = None
    /\ expected_file_names = None
    /\ matching_file_names = None
    /\ missing_file_names = None
    /\ op = [name |-> "__init__", arg |-> 0, err |-> "", again |-> FALSE]
    /\ ret = None
    /\ n_changes = 0

\* what no call on the helper's naming functions touches
helper_state == <<config_vars, fs, dates, n_epochs, h_n_epochs, h_path_names,
                  h_expected_file_names, path_names, file_names, expected_file_names,
                  matching_file_names, missing_file_names, n_changes>>

\* get_epoch_name_info(i); the first answer for i is kept in seen_epoch_info
AskEpochInfo ==
    \E i \in 1..MaxAskedIdx :
        \E r \in {get_epoch_name_info(PyInt(i))} :
            /\ op' = [name |-> "get_epoch_name_info", arg |-> i, err |-> r.err,
                      again |-> seen_epoch_info[i] # None]
            /\ ret' = IF r.err = "" THEN DataFrame(r.v) ELSE None
            /\ seen_epoch_info' =
                    [seen_epoch_info EXCEPT ![i] = IF @ = None THEN ret' ELSE @]
            /\ UNCHANGED helper_state

\* get_file_name_prefix(date1, epoch_idx=i)
AskPrefix ==
    \E i \in 1..MaxAskedIdx :
        \E r \in {get_file_name_prefix(date1, PyInt(i), None, None, None)} :
            /\ op' = [name |-> "get_file_name_prefix", arg |-> i, err |-> r.err,
                      again |-> FALSE]
            /\ ret' = IF r.err = "" THEN PyStr(r.v) ELSE None
            /\ UNCHANGED <<helper_state, seen_epoch_info>>

\* update() of the helper: its paths and its expected names are derived anew
HelperUpdate ==
    \E r \in {FileNameHelper_update(Self._file_name_helper)} :
        /\ h_path_names' = r.self._path_names
        /\ h_expected_file_names' = r.self._expected_file_names
        /\ op' = [name |-> "update", arg |-> 0, err |-> r.err, again |-> FALSE]
        /\ ret' = None
        /\ UNCHANGED <<config_vars, fs, dates, n_epochs, h_n_epochs, path_names,
                       file_names, expected_file_names, matching_file_names,
                       missing_file_names, n_changes, seen_epoch_info>>

NextHelper ==
    \/ AskEpochInfo
    \/ AskPrefix
    \/ HelperUpdate

SpecHelper == InitHelper /\ [][NextHelper]_vars

-----------------------------------------------------------------------------
(* What the formulas below read from the tables *)

Populated(table) == table.py = "df"

Tables == <<path_names, file_names, expected_file_names, matching_file_names,
            missing_file_names>>

\* the names a table holds for a file type and a path
NamesAt(table, file_type, path_name) ==
    {row.file_name :
        row \in {r \in Range(table.v) : r.file_type = file_type /\ r.path_name = path_name}}

\* the number of rows a table holds for a file type, a path and a name
RowsOf(table, file_type, path_name, file_name) ==
    Cardinality({n \in 1..Len(table.v) :
                    /\ table.v[n].file_type = file_type
                    /\ table.v[n].path_name = path_name
                    /\ table.v[n].file_name = file_name})

\* the (file type, path) pairs of the path table
TypePaths == Range(path_names.v)

-----------------------------------------------------------------------------
(* C1: whenever the matching and the missing table are populated, for every *)
(* file type and path the matching and the missing names together are the   *)
(* expected names, no name is both, every matching name is a name of the    *)
(* table of actual names, and an actual name that is not expected is        *)
(* neither matching nor missing.                                            *)

C1_Partition ==
    Populated(matching_file_names) /\ Populated(missing_file_names) =>
        \A tp \in TypePaths :
            LET matching == NamesAt(matching_file_names, tp.file_type, tp.path_name)
                missing == NamesAt(missing_file_names, tp.file_type, tp.path_name)
                expected == NamesAt(expected_file_names, tp.file_type, tp.path_name)
                actual == NamesAt(file_names, tp.file_type, tp.path_name)
            IN  /\ matching \cup missing = expected
                /\ matching \cap missing = {}
                /\ matching \subseteq actual
                /\ (actual \ expected) \cap (matching \cup missing) = {}

-----------------------------------------------------------------------------
(* C4: whenever the expected table is populated, the expected video names   *)
(* are, for every date, one .h264 name per epoch of that date: the names of *)
(* all epochs 1..n, not the name of one epoch only.                         *)

C4_VideoNamesOfAllEpochs ==
    Populated(expected_file_names) =>
        NamesAt(expected_file_names, "video", _get_video_files_path[1]) =
            UNION {{camera_file_name(dates[ndx], i, ext_h264) : i \in 1..h_n_epochs[ndx]} :
                        ndx \in 1..Len(dates)}

-----------------------------------------------------------------------------
(* C2: for every positive index i and every configured epoch-type list of   *)
(* length k with its parallel camera list, get_epoch_name_info(i) names the *)
(* epoch by the type at position i mod k followed by the decimal digits of  *)
(* i div k, and the camera at position i mod k; with ["sleep","run"],       *)
(* ["0","1"] and i = 3 that is "03", "run1", "1".                           *)

DigitValue(c) == CHOOSE d \in 0..9 : Digits[d + 1] = c

RECURSIVE int(_)
\* the number a str of decimal digits writes
int(s) ==
    IF s = "" THEN 0
    ELSE 10 * int(SubSeq(s, 1, Len(s) - 1)) + DigitValue(CharAt(s, Len(s)))

\* s is the decimal numeral of n: digits only, no leading zero, value n
IsDecimalOf(s, n) ==
    /\ s # ""
    /\ \A m \in 1..Len(s) : CharAt(s, m) \in Range(Digits)
    /\ Len(s) > 1 => CharAt(s, 1) # "0"
    /\ int(s) = n

SleepRun ==
    /\ epoch_names_list = <<"sleep", "run">>
    /\ camera_names_list = <<"0", "1">>

C2_CyclicEpochInfo ==
    op.name = "get_epoch_name_info" =>
        LET i == op.arg[1]
            k == Len(epoch_names_list)
            type == epoch_names_list[(i % k) + 1]
        IN  /\ op.err = ""
            /\ Len(ret) = 1
            /\ StartsWith(ret[1].epoch_name, type)
            /\ IsDecimalOf(SubSeq(ret[1].epoch_name, Len(type) + 1,
                                  Len(ret[1].epoch_name)), i \div k)
            /\ ret[1].camera_name = camera_names_list[(i % k) + 1]
            /\ (SleepRun /\ i = 3) =>
                    /\ ret[1].epoch_number = "03"
                    /\ ret[1].epoch_name = "run1"
                    /\ ret[1].camera_name = "1"

C2_Witness ==
    /\ op.name = "get_epoch_name_info"
    /\ op.arg = <<3>>
    /\ SleepRun
    /\ ret[1].epoch_name = "run1"

-----------------------------------------------------------------------------
(* C3: the name built for an extension x is default_prefix, then every      *)
(* prefix, infix and suffix whose own association list (the one under the   *)
(* fragment's key) contains x, then x; no other fragment is included,       *)
(* whatever the number and order of the keys.                               *)

\* the association list stored under key k, empty when there is none
AssociationOf(associations, k) ==
    IF associations.py = "none" THEN <<>>
    ELSE Concat([n \in 1..Len(associations.v) |->
                    IF associations.v[n].k = k THEN associations.v[n].v ELSE <<>>])

\* the fragments of a dict whose own association list holds x, in dict order
OwnParts(parts, associations, x) ==
    LET own(item) == x \in Range(AssociationOf(associations, item.k))
    IN  dict_values(SelectSeq(parts, own))

C3_FragmentsByOwnAssociation ==
    op.name = "_create_expected_file_names" =>
        LET d == op.arg
        IN  Range(ret) =
                { d.default_prefix
                    \o join(OwnParts(d.prefixes, d.associations, x)
                            \o OwnParts(d.infixes, d.associations, x)
                            \o OwnParts(d.suffixes, d.associations, x))
                    \o x : x \in Range(d.extensions) }

-----------------------------------------------------------------------------
(* C5: compare_file_names fails with an AssertionError and returns nothing  *)
(* whenever the list of actual names or the list of expected names repeats  *)
(* a name, and otherwise returns the intersection and the difference; the   *)
(* reconciliation of a FileInfo whose actual or expected names of a path    *)
(* repeat a name fails with that AssertionError and assigns neither table.  *)

HasRepeat(s) == \E m, n \in 1..Len(s) : m # n /\ s[m] = s[n]

C5_RepeatedNamesAssert ==
    /\ op.name = "compare_file_names" =>
        IF HasRepeat(op.arg[1]) \/ HasRepeat(op.arg[2])
        THEN op.err = "AssertionError" /\ ret = <<>>
        ELSE /\ op.err = ""
             /\ Range(ret[1]) = Range(op.arg[2]) \cap Range(op.arg[1])
             /\ Range(ret[2]) = Range(op.arg[2]) \ Range(op.arg[1])
    /\ op.name = "_update_matching_and_missing_file_names" =>
        IF HasRepeat(op.arg[1]) \/ HasRepeat(op.arg[2])
        THEN op.err = "AssertionError" /\ ret = <<None, None>>
        ELSE /\ op.err = ""
             /\ {row.file_name : row \in Range(ret[1].v)} =
                    Range(op.arg[2]) \cap Range(op.arg[1])
             /\ {row.file_name : row \in Range(ret[2].v)} =
                    Range(op.arg[2]) \ Range(op.arg[1])

C5_Witness ==
    /\ op.name = "_update_matching_and_missing_file_names"
    /\ op.arg = <<<<"a", "b">>, <<"a", "a">>>>
    /\ op.err = "AssertionError"

-----------------------------------------------------------------------------
(* C6: when two epochs of a date produce the same expected name, refreshing *)
(* the reconciliation raises an AssertionError instead of merging the two.  *)
(* Every epoch of a raw directory produces the same .trodesconf name, so    *)
(* this is the case of every date with two epochs or more.                  *)

SomeDateHasTwoEpochs == \E ndx \in 1..Len(dates) : h_n_epochs[ndx] >= 2

C6_RepeatedNameRaises ==
    (op.name \in {"update", "verify_file_names"} /\ SomeDateHasTwoEpochs) =>
        op.err = "AssertionError"

(* C6, as the code has it: a name that several epochs of a date produce is  *)
(* merged by the set union over the epochs; it is expected once for that    *)
(* date, and no operation raises an AssertionError on its account.          *)

C6_RepeatedNameMerged ==
    /\ op.err # "AssertionError"
    /\ Populated(expected_file_names) =>
        \A ndx \in 1..Len(dates) :
            h_n_epochs[ndx] >= 2 =>
                RowsOf(expected_file_names, "raw", raw_path(dates[ndx]),
                       date_subject(dates[ndx]) \o ext_trodesconf) = 1

C6_Witness ==
    /\ op.name = "update"
    /\ op.err = ""
    /\ SomeDateHasTwoEpochs
    /\ Populated(expected_file_names)
    /\ Populated(matching_file_names)

-----------------------------------------------------------------------------
(* C7: in the matching table and in the missing table a (file type, path,   *)
(* file name) has one record at most, whether the path has no, one or       *)
(* several matching (missing) names.                                        *)

OneRecordPerName(table) ==
    Populated(table) =>
        \A tp \in TypePaths :
            \A name \in NamesAt(table, tp.file_type, tp.path_name) :
                RowsOf(table, tp.file_type, tp.path_name, name) = 1

C7_OneRecordPerName ==
    OneRecordPerName(matching_file_names) /\ OneRecordPerName(missing_file_names)

-----------------------------------------------------------------------------
(* C8: between two public operations, also after one that raised, the five  *)
(* tables are all unpopulated, or all populated and the matching and        *)
(* missing tables are the reconciliation of the tables of actual and        *)
(* expected names held with them.                                           *)

C8_NoTornState ==
    \/ \A n \in 1..Len(Tables) : ~Populated(Tables[n])
    \/ /\ \A n \in 1..Len(Tables) : Populated(Tables[n])
       /\ \E t \in {matching_and_missing_tables(Self)} :
            /\ t.err = ""
            /\ matching_file_names = DataFrame(t.v.matching)
            /\ missing_file_names = DataFrame(t.v.missing)

-----------------------------------------------------------------------------
(* C9: a read of a property refreshes exactly when the table of that        *)
(* property is unpopulated: then a read that returns has populated all five *)
(* tables; a read of a populated table returns that table and leaves every  *)
(* table as it was, whatever happened to the directory tree since.          *)

C9_ReadRefreshesOnlyWhenUnpopulated ==
    [][op'.name = "read" =>
        IF ~Populated(Self[op'.arg])
        THEN op'.err = "" =>
                /\ \A n \in 1..Len(Tables) : Populated(Tables[n]')
                /\ ret' = Self'[op'.arg]
                /\ file_names' = DataFrame(file_names_table(Self').v)
        ELSE /\ op'.err = ""
             /\ ret' = Self[op'.arg]
             /\ UNCHANGED <<Tables, h_path_names, h_expected_file_names>>]_vars

\* the raw names date1 has in the table of actual names
C9_Witness ==
    /\ op.name = "read"
    /\ op.arg = "_file_names"
    /\ op.err = ""
    /\ n_changes > 0
    /\ ret = file_names
    /\ NamesAt(file_names, "raw", raw_path(date1)) # fs[raw_path(date1)]

-----------------------------------------------------------------------------
(* C10: after an update() that returns, the expected raw names of every     *)
(* date are those of the number of .rec files the date has now.             *)

C10_UpdateRederivesEpochs ==
    (op.name = "update" /\ op.err = "") =>
        \A ndx \in 1..Len(dates) :
            NamesAt(expected_file_names, "raw", raw_path(dates[ndx])) =
                UNION {Range(_create_expected_file_names(raw_name_parts(dates[ndx], i))) :
                            i \in 1..get_number_of_epochs(dates)[ndx]}

-----------------------------------------------------------------------------
(* C11: get_file_name_prefix(date) alone returns date + "_" + subject; with *)
(* an epoch number and an epoch name it returns that followed by "_" +      *)
(* epoch_number + "_" + epoch_name; with a camera name as well, the latter  *)
(* followed by "." + camera_name.                                           *)

Given(x) == x.py # "none"

C11_PrefixComposition ==
    op.name = "get_file_name_prefix" =>
        LET x == op.arg
            session == x.date \o "_" \o subject_name
        IN  /\ ( /\ ~Given(x.epoch_idx) /\ ~Given(x.epoch_number)
                 /\ ~Given(x.epoch_name) /\ ~Given(x.camera_name) ) =>
                    op.err = "" /\ ret = PyStr(session)
            /\ ( /\ ~Given(x.epoch_idx) /\ Given(x.epoch_number)
                 /\ Given(x.epoch_name) /\ ~Given(x.camera_name) ) =>
                    /\ op.err = ""
                    /\ ret = PyStr(session \o "_" \o x.epoch_number.v
                                           \o "_" \o x.epoch_name.v)
            /\ ( /\ ~Given(x.epoch_idx) /\ Given(x.epoch_number)
                 /\ Given(x.epoch_name) /\ Given(x.camera_name) ) =>
                    /\ op.err = ""
                    /\ ret = PyStr(session \o "_" \o x.epoch_number.v
                                           \o "_" \o x.epoch_name.v
                                           \o "." \o x.camera_name.v)

C11_Witness ==
    /\ op.name = "get_file_name_prefix"
    /\ op.arg.date = date1
    /\ ~Given(op.arg.epoch_idx)
    /\ Given(op.arg.camera_name)
    /\ ret = PyStr("20230101_rat1_01_r1.1")

-----------------------------------------------------------------------------
(* C12: get_file_name_prefix raises and returns nothing when an epoch index *)
(* is given together with an epoch number, an epoch name or a camera name,  *)
(* when one of epoch number and epoch name is given without the other, and  *)
(* when a camera name is given without both of them.                        *)

C12_ContradictoryArgumentsRaise ==
    op.name = "get_file_name_prefix" =>
        LET x == op.arg
        IN  ( \/ /\ Given(x.epoch_idx)
                 /\ (Given(x.epoch_number) \/ Given(x.epoch_name) \/ Given(x.camera_name))
              \/ Given(x.epoch_number) /\ ~Given(x.epoch_name)
              \/ ~Given(x.epoch_number) /\ Given(x.epoch_name)
              \/ Given(x.camera_name) /\ ~(Given(x.epoch_number) /\ Given(x.epoch_name)) )
            => (op.err # "" /\ ret = None)

-----------------------------------------------------------------------------
(* C13: a call given an epoch index that is not a positive integer raises;  *)
(* get_file_name_prefix with such an index never returns a prefix.          *)

\* x is an int greater than zero
ValidIndex(x) == x.py = "int" /\ x.v >= 1

C13_InvalidEpochIndexRaises ==
    /\ ( /\ op.name = "get_file_name_prefix"
         /\ Given(op.arg.epoch_idx)
         /\ ~ValidIndex(op.arg.epoch_idx) ) => (op.err # "" /\ ret = None)
    /\ ( /\ op.name = "get_epoch_name_info"
         /\ op.arg.py # "list"
         /\ ~ValidIndex(op.arg) ) => (op.err # "" /\ ret = None)

-----------------------------------------------------------------------------
(* C14: get_epoch_name_info raises and returns nothing when the index is    *)
(* zero, negative or not an integer, and when one item of a list of indices *)
(* is; otherwise it returns one row per index.                              *)

C14_InvalidIndexFailsWholeCall ==
    op.name = "get_epoch_name_info" =>
        LET items == IF op.arg.py = "list" THEN op.arg.v ELSE <<op.arg>>
        IN  IF \E n \in 1..Len(items) : ~ValidIndex(items[n])
            THEN op.err # "" /\ ret = None
            ELSE op.err = "" /\ Len(ret.v) = Len(items)

C14_Witness ==
    /\ op.name = "get_epoch_name_info"
    /\ op.arg = PyList(<<PyInt(1), PyInt(0)>>)
    /\ op.err = "ValueError"
    /\ ret = None

-----------------------------------------------------------------------------
(* C15: for every positive index i the epoch number is "0" followed by the  *)
(* decimal digits of i and nothing else: two characters up to 9, three from *)
(* 10 to 99, "010" for 10.                                                  *)

C15_EpochNumberOneLeadingZero ==
    op.name = "get_epoch_name_info" =>
        LET i == op.arg[1]
            number == ret[1].epoch_number
        IN  /\ CharAt(number, 1) = "0"
            /\ IsDecimalOf(SubSeq(number, 2, Len(number)), i)
            /\ (1 <= i /\ i <= 9) => Len(number) = 2
            /\ (10 <= i /\ i <= 99) => Len(number) = 3
            /\ i = 10 => number = "010"

C15_Witness ==
    /\ op.name = "get_epoch_name_info"
    /\ op.arg = <<10>>
    /\ ret[1].epoch_number = "010"

-----------------------------------------------------------------------------
(* C17: when the extension table has no associations, every expected name   *)
(* is default_prefix followed by the extension and nothing in between,      *)
(* whatever fragments are handed over; "20230101_rat1" and ".yml" give      *)
(* exactly "20230101_rat1.yml".                                             *)

C17_NoAssociationsNoFragments ==
    (op.name = "_create_expected_file_names" /\ op.arg.associations = None) =>
        /\ Range(ret) = {op.arg.default_prefix \o x : x \in Range(op.arg.extensions)}
        /\ ( /\ op.arg.default_prefix = "20230101_rat1"
             /\ op.arg.extensions = <<ext_yml>> ) => ret = <<"20230101_rat1.yml">>

C17_Witness ==
    /\ op.name = "_create_expected_file_names"
    /\ op.arg.associations = None
    /\ op.arg.suffixes # <<>>
    /\ op.arg.infixes # <<>>
    /\ op.arg.default_prefix = "20230101_rat1"
    /\ op.arg.extensions = <<ext_yml>>
    /\ ret = <<"20230101_rat1.yml">>

-----------------------------------------------------------------------------
(* C16: get_epoch_name_info(i) returns what it returned for i the first     *)
(* time, whatever calls and updates ran in between, and the call changes    *)
(* nothing of the helper or of the configuration.                           *)

-----------------------------------------------------------------------------
(* C18: a verify that returns has refreshed all five tables and has emitted *)
(* one verdict for every row of the path table, in the order of that table: *)
(* raw paths in date order, then metadata, yml, nwb, video; the verdict of  *)
(* a (file type, path) is pass exactly when every expected name of the pair *)
(* is an actual name, and a fail does not end the verdicts.                 *)

\* the file types of the path table, in order: raw once per date, then the others
TypeOrder == [n \in 1..Len(dates) |-> "raw"] \o Tail(file_types)

C18_VerifyEmitsEveryVerdict ==
    (op.name = "verify_file_names" /\ op.err = "") =>
        /\ \A n \in 1..Len(Tables) : Populated(Tables[n])
        /\ file_names = DataFrame(file_names_table(Self).v)
        /\ [n \in 1..Len(path_names.v) |-> path_names.v[n].file_type] = TypeOrder
        /\ \A n \in 1..Len(dates) : path_names.v[n].path_name = raw_path(dates[n])
        /\ Len(ret.v) = Len(path_names.v)
        /\ \A n \in 1..Len(ret.v) :
            LET row == path_names.v[n]
            IN  /\ ret.v[n].file_type = row.file_type
                /\ ret.v[n].date = IF row.file_type = "raw" THEN dates[n] ELSE "all dates"
                /\ ret.v[n].pass_bool =
                        (NamesAt(expected_file_names, row.file_type, row.path_name)
                            \subseteq NamesAt(file_names, row.file_type, row.path_name))

C18_Witness ==
    /\ op.name = "verify_file_names"
    /\ op.err = ""
    /\ Len(ret.v) = 5
    /\ ~ret.v[1].pass_bool
    /\ ret.v[4].file_type = "nwb" /\ ret.v[4].pass_bool
    /\ ret.v[5].file_type = "video" /\ ~ret.v[5].pass_bool

-----------------------------------------------------------------------------
(* C19: an operation that scans the directories while one of them does not  *)
(* exist raises; it assigns no table of actual names and no matching or     *)
(* missing table.                                                           *)

\* the directories a refresh scans
ScannedDirs ==
    Range(_get_raw_path(Self)) \cup
        {_get_metadata_path[1], _get_yml_files_path[1], _get_nwb_files_path[1],
         _get_video_files_path[1]}

C19_MissingDirectoryRaises ==
    [][( /\ \/ op'.name \in {"update", "verify_file_names"}
            \/ op'.name = "read" /\ ~Populated(Self[op'.arg])
            \/ op'.name = "search" /\ op'.arg[1] = "_file_names"
         /\ \E d \in ScannedDirs : d \notin DOMAIN fs )
        => ( /\ op'.err # ""
             /\ UNCHANGED <<file_names, matching_file_names, missing_file_names>> )]_vars

C19_Witness ==
    /\ op.name = "update"
    /\ op.err = "FileNotFoundError"
    /\ _get_yml_files_path[1] \notin DOMAIN fs
    /\ Populated(file_names)
    /\ Populated(missing_file_names)

-----------------------------------------------------------------------------
(* C20: a search returns without error the records of the searched table    *)
(* whose file name contains every pattern, and an empty table when there is *)
(* none.                                                                    *)

\* txt occurs in name
IsSubstring(name, txt) ==
    \E n \in 0..(Len(name) - Len(txt)) : SubSeq(name, n + 1, n + Len(txt)) = txt

C20_SearchReturnsRecordsWithEveryPattern ==
    op.name = "search" =>
        /\ op.err = ""
        /\ op.arg[1] # "_path_names" =>
            ret.v = SelectSeq(Self[op.arg[1]].v,
                        LAMBDA row : \A n \in 1..Len(op.arg[2].v) :
                                        IsSubstring(row.file_name, op.arg[2].v[n]))

-----------------------------------------------------------------------------
(* Construction of a FileInfo on the tree it finds, and its life after:      *)
(* FileInfo.__init__, DataReader.__init__, reads, update(), verify, and      *)
(* directories removed with all they hold                                    *)

date3 == "20230103"

\* s sorted: the names sorted here are digit strings of equal length, which sort
\* as the numbers they write
RECURSIVE sorted(_)
sorted(S) ==
    Let(S, LAMBDA T :
        IF T = {} THEN <<>>
        ELSE Let(CHOOSE x \in T : \A y \in T : int(x) <= int(y), LAMBDA x :
                 <<x>> \o sorted(T \ {x})))

\* get_session_dates(): the folders of the sessions path, sorted
get_session_dates == sorted(dir_entries(_sessions_path))

\* DataReader.__init__(subject_name, dates): the _dates and _n_epochs it assigns, or
\* what it raises
DataReader_init(dates_arg) ==
    Let(_validate_subject_name, LAMBDA invalid :
        IF invalid # "" THEN Raise(invalid)
        ELSE IF dates_arg.py = "none" /\ ~path_exists(_sessions_path)
        THEN Raise("FileNotFoundError")
        ELSE
        Let(IF dates_arg.py = "none" THEN get_session_dates
            ELSE parse_iterable_inputs(dates_arg),
            LAMBDA dates_list :
        Let(_validate_dates(dates_list), LAMBDA bad :
            IF bad # "" THEN Raise(bad)
            ELSE Ok([dates |-> dates_list,
                     _n_epochs |-> get_number_of_epochs(dates_list)]))))

\* FileInfo.__init__(subject_name, dates): the DataReader part, then the helper is
\* constructed with the dates of the FileInfo
FileInfo_init(dates_arg) ==
    Let(DataReader_init(dates_arg), LAMBDA r :
        IF r.err # "" THEN r
        ELSE
        Let(DataReader_init(PyList(r.v.dates)), LAMBDA h :
            IF h.err # "" THEN h
            ELSE Ok([dates |-> r.v.dates, _n_epochs |-> r.v._n_epochs,
                     h_n_epochs |-> h.v._n_epochs])))

\* a tree without the directory d and all it holds
rmtree(tree, d) ==
    [e \in {e \in DOMAIN tree : e # d /\ ~StartsWith(e, d \o "/")} |-> tree[e]]

\* files next to the ones the rules name: of another subject, of a date without its
\* extension, with an extension and no date, of a date in the directory of another
strays ==
    (raw_path(date1) :> {date2 \o "_" \o subject_name \o ext_rec \o ".txt",
                         "rat2_" \o date1 \o ".log"})
    @@ (_get_yml_files_path[1] :>
            {date_subject(date1) \o ext_yml, date_subject(date2) \o "_b" \o ext_yml,
             date_subject(date1) \o ".txt", "notes" \o ext_yml})
    @@ (_get_nwb_files_path[1] :>
            {subject_name \o "_" \o date2 \o ext_nwb \o ".bak",
             date1 \o "_" \o subject_name \o ext_nwb})
    @@ (_get_video_files_path[1] :>
            {camera_file_name(date1, 1, ext_h264), "x" \o ext_h264,
             camera_file_name(date2, 1, ext_videoPositionTracking)})

\* a tree with the stray files added to its directories
with_strays(tree) ==
    [d \in DOMAIN tree |-> IF d \in DOMAIN strays THEN tree[d] \cup strays[d] ELSE tree[d]]

\* the trees a construction finds: the subject with its sessions; no directory of
\* the subject; a regular file that has the subject's name; a subject without the
\* directory of date2; a subject without sessions path
StartTrees ==
    {with_strays(InitialTree(n)) : n \in 0..MaxEpochs}
    \cup {rmtree(InitialTree(1), subject_path),
          (norm(data_path) :> {subject_name}),
          rmtree(with_strays(InitialTree(1)), raw_path(date2)),
          rmtree(InitialTree(1), _sessions_path)}

\* the dates handed to the constructor: none (all sessions), one date as a str,
\* lists in either order, a date twice, a date without directory
DatesArgs ==
    {None, PyStr(date1), PyList(<<date1, date2>>), PyList(<<date2, date1>>),
     PyList(<<date1, date1>>), PyList(<<date1, date3>>)}

\* the directories removed while the FileInfo lives
RemovedTrees == {subject_path, raw_path(date1), raw_path(date2)}

InitLife ==
    /\ \E c \in InstanceConfigs :
        /\ epoch_names_list = c.epochs
        /\ camera_names_list = c.cameras
    /\ fs \in StartTrees
    /\ dates = <<>>
    /\ n_epochs = <<>>
    /\ h_n_epochs = <<>>
    /\ h_path_names = None
    /\ h_expected_file_names = None
    /\ path_names = None
    /\ file_names = None
    /\ expected_file_names = None
    /\ matching_file_names = None
    /\ missing_file_names = None
    /\ op = [name |-> "new", arg |-> <<>>, err |-> ""]
    /\ ret = None
    /\ n_changes = 0
    /\ seen_epoch_info = <<>>

\* FileInfo(subject_name, dates=dates_arg)
Construct ==
    /\ op.name = "new"
    /\ \E dates_arg \in DatesArgs :
        \E r \in {FileInfo_init(dates_arg)} :
            /\ op' = [name |-> "__init__", arg |-> dates_arg, err |-> r.err]
            /\ dates' = IF r.err = "" THEN r.v.dates ELSE <<>>
            /\ n_epochs' = IF r.err = "" THEN r.v._n_epochs ELSE <<>>
            /\ h_n_epochs' = IF r.err = "" THEN r.v.h_n_epochs ELSE <<>>
    /\ ret' = None
    /\ UNCHANGED <<config_vars, fs, h_path_names, h_expected_file_names, path_names,
                   file_names, expected_file_names, matching_file_names,
                   missing_file_names, n_changes, seen_epoch_info>>

\* there is a FileInfo: the constructor returned
Constructed == op.name # "new" /\ ~(op.name = "__init__" /\ op.err # "")

LifeRead == Constructed /\ Read

LifeUpdate == Constructed /\ Update

LifeVerify == Constructed /\ Verify

RemoveTree ==
    /\ Constructed
    /\ \E d \in RemovedTrees :
        /\ d \in DOMAIN fs
        /\ fs' = rmtree(fs, d)
    /\ Changed

NextLife ==
    \/ Construct
    \/ LifeRead
    \/ LifeUpdate
    \/ LifeVerify
    \/ RemoveTree

SpecLife == InitLife /\ [][NextLife]_vars

-----------------------------------------------------------------------------
(* C21: constructing a FileInfo raises, and derives no table, when the       *)
(* subject is not a directory under the data root, when the list of dates    *)
(* holds a date twice, or when a date has no directory under the subject's   *)
(* sessions path; update() raises on the same conditions, before the helper  *)
(* or the FileInfo recomputes a table.                                       *)

\* the subject or one of the dates is not valid on the tree as it is
NotValid(dates_list) ==
    \/ subject_path \notin DOMAIN fs
    \/ ~IsUnique(dates_list)
    \/ \E n \in 1..Len(dates_list) : raw_path(dates_list[n]) \notin DOMAIN fs

C21_InvalidSubjectOrDatesRaise ==
    [][ /\ ( /\ op'.name = "__init__"
             /\ \/ subject_path \notin DOMAIN fs
                \/ op'.arg # None /\ NotValid(parse_iterable_inputs(op'.arg)) )
            => ( /\ op'.err \in {"ValueError", "FileNotFoundError"}
                 /\ dates' = <<>>
                 /\ \A n \in 1..Len(Tables) : ~Populated(Tables[n]') )
        /\ (op'.name = "update" /\ NotValid(dates))
            => ( /\ op'.err \in {"ValueError", "FileNotFoundError"}
                 /\ UNCHANGED <<h_path_names, h_expected_file_names, path_names>> )
      ]_vars

\* the constructor was handed date1 twice, on a tree where date1 is a session
C21_Witness ==
    /\ op.name = "__init__"
    /\ op.arg = PyList(<<date1, date1>>)
    /\ op.err = "ValueError"
    /\ raw_path(date1) \in DOMAIN fs
    /\ dates = <<>>

-----------------------------------------------------------------------------
(* C22: whenever the expected table is populated, the expected raw names of  *)
(* a date with n >= 1 epochs are the session name date_subject .trodesconf,  *)
(* once, and for every epoch 1..n the two names with the epoch infix (.rec,  *)
(* .stateScriptLog) and the three names with the epoch and the camera infix  *)
(* (.h264, .videoPositionTracking, .videoTimeStamps.cameraHWSync): 1 + 5n    *)
(* names, one record each, all under the raw directory of that date.         *)

\* the raw names of a date with n epochs, written out
RawNamesOf(date, n) ==
    {date_subject(date) \o ext_trodesconf}
    \cup {epoch_file_name(date, i, ext) :
            i \in 1..n, ext \in {ext_rec, ext_stateScriptLog}}
    \cup {camera_file_name(date, i, ext) :
            i \in 1..n,
            ext \in {ext_h264, ext_videoPositionTracking, ext_videoTimeStamps}}

C22_ExpectedRawNames ==
    Populated(expected_file_names) =>
        \A ndx \in 1..Len(dates) :
            h_n_epochs[ndx] >= 1 =>
                LET names == NamesAt(expected_file_names, "raw", raw_path(dates[ndx]))
                IN  /\ names = RawNamesOf(dates[ndx], h_n_epochs[ndx])
                    /\ Cardinality(names) = 1 + 5 * h_n_epochs[ndx]
                    /\ \A name \in names :
                        /\ RowsOf(expected_file_names, "raw", raw_path(dates[ndx]),
                                  name) = 1
                        /\ \A row \in Range(expected_file_names.v) :
                            (row.file_type = "raw" /\ row.file_name = name)
                                => row.path_name = raw_path(dates[ndx])

\* a date with two epochs has its eleven names
C22_Witness ==
    /\ Populated(expected_file_names)
    /\ \E ndx \in 1..Len(dates) :
        /\ h_n_epochs[ndx] = 2
        /\ Cardinality(NamesAt(expected_file_names, "raw", raw_path(dates[ndx]))) = 11

-----------------------------------------------------------------------------
(* C23: right after a refresh that returned, the table of actual names holds *)
(* for every file type and path one record for each regular file of the      *)
(* directory whose name matches the pattern of the type, and nothing else:   *)
(* raw, the names of the raw directory of a date that start with             *)
(* date_subject; yml, nwb and video, the names that start with date_subject  *)
(* (nwb: subject_date) of one of the dates and end in the extension of the   *)
(* type; metadata, every file of the metadata directory.  A folder of the    *)
(* directory is never listed.                                                *)

\* the operation before this state refreshed the table of actual names and no
\* directory changed since
ActualNamesFresh ==
    /\ op.err = ""
    /\ op.name \in {"update", "verify_file_names"}

\* the files of a directory that start with prefix and end in ext, for one of the
\* dates
FilesOf(dir, prefix_of(_), ext) ==
    {name \in fs[dir] :
        \E ndx \in 1..Len(dates) :
            /\ StartsWith(name, prefix_of(dates[ndx]))
            /\ EndsWith(name, ext)
            /\ Len(prefix_of(dates[ndx])) + Len(ext) <= Len(name)}

C23_ActualNamesAreMatchingFiles ==
    ActualNamesFresh =>
        /\ \A ndx \in 1..Len(dates) :
            NamesAt(file_names, "raw", raw_path(dates[ndx])) =
                {name \in fs[raw_path(dates[ndx])] :
                    StartsWith(name, dates[ndx] \o "_" \o subject_name)}
        /\ NamesAt(file_names, "metadata", _get_metadata_path[1]) =
                fs[_get_metadata_path[1]]
        /\ NamesAt(file_names, "yml", _get_yml_files_path[1]) =
                FilesOf(_get_yml_files_path[1],
                        LAMBDA date : date \o "_" \o subject_name, ".yml")
        /\ NamesAt(file_names, "nwb", _get_nwb_files_path[1]) =
                FilesOf(_get_nwb_files_path[1],
                        LAMBDA date : subject_name \o "_" \o date, ".nwb")
        /\ NamesAt(file_names, "video", _get_video_files_path[1]) =
                FilesOf(_get_video_files_path[1],
                        LAMBDA date : date \o "_" \o subject_name, ".h264")
        /\ \A row \in Range(file_names.v) :
            /\ [path_name |-> row.path_name, file_type |-> row.file_type] \in TypePaths
            /\ RowsOf(file_names, row.file_type, row.path_name, row.file_name) = 1

\* a refresh listed the yml file of date1 and left the other files of the yml
\* directory out; the metadata directory has a folder
C23_Witness ==
    /\ ActualNamesFresh
    /\ NamesAt(file_names, "yml", _get_yml_files_path[1])
            = {date1 \o "_" \o subject_name \o ".yml"}
    /\ Cardinality(fs[_get_yml_files_path[1]]) > 1
    /\ dir_entries(_get_metadata_path[1]) # {}

-----------------------------------------------------------------------------
(* C24: with distinct dates that are digit strings of equal length, the      *)
(* actual names and the expected names that a refresh hands to               *)
(* compare_file_names for a file type and a path hold no name twice, and no  *)
(* operation raises the AssertionError of compare_file_names.                *)

C24_ComparedNamesNeverRepeat ==
    /\ op.err # "AssertionError"
    /\ (Populated(path_names) /\ Populated(file_names)
            /\ Populated(expected_file_names)) =>
        \A tp \in TypePaths :
            /\ IsUnique(full_names_at(file_names.v, tp.file_type, tp.path_name))
            /\ IsUnique(full_names_at(expected_file_names.v, tp.file_type,
                                      tp.path_name))

\* two dates were compared: their yml files are in one directory, which was
\* scanned once per date
C24_Witness ==
    /\ op.name = "update"
    /\ op.err = ""
    /\ Len(dates) = 2
    /\ Cardinality(NamesAt(file_names, "yml", _get_yml_files_path[1])) = 2
    /\ Populated(matching_file_names)

-----------------------------------------------------------------------------
(* C25: a search of the actual, expected, matching or missing names made in  *)
(* any state of a FileInfo whose directories are all there, also as the      *)
(* first operation after construction, returns a table and does not raise.   *)
(* (search_path_names raises on every call that has a pattern, whatever the  *)
(* state: it is left to C20.)                                                *)

C25_SearchInAnyState ==
    [][( /\ op'.name = "search"
         /\ op'.arg[1] # "_path_names"
         /\ \A d \in ScannedDirs : d \in DOMAIN fs
         /\ \A ndx \in 1..Len(dates) : h_n_epochs[ndx] >= 1 )
        => ( /\ op'.err = ""
             /\ ret'.py = "df" )]_vars

-----------------------------------------------------------------------------
(* C26: get_file_name_prefix(date, epoch_idx=i) for a positive int i returns *)
(* what get_file_name_prefix(date, epoch_number, epoch_name, camera_name)    *)
(* returns for the three values of get_epoch_name_info(i): date + "_" +      *)
(* subject + "_" + epoch_number + "_" + epoch_name + "." + camera_name.      *)

C26_PrefixOfIndexIsPrefixOfItsInfo ==
    ( /\ op.name = "get_file_name_prefix"
      /\ IsPositiveInt(op.arg.epoch_idx)
      /\ op.arg.epoch_number = None
      /\ op.arg.epoch_name = None
      /\ op.arg.camera_name = None )
    => LET info == get_epoch_name_info(op.arg.epoch_idx).v[1]
           explicit == get_file_name_prefix(op.arg.date, None,
                                            PyStr(info.epoch_number),
                                            PyStr(info.epoch_name),
                                            PyStr(info.camera_name))
       IN  /\ op.err = ""
           /\ explicit.err = ""
           /\ ret = PyStr(explicit.v)
           /\ ret.v = op.arg.date \o "_" \o subject_name \o "_" \o info.epoch_number
                        \o "_" \o info.epoch_name \o "." \o info.camera_name

\* the prefix of epoch 3 of date2 with the lists ["sleep","run"], ["0","1"]
C26_Witness ==
    /\ op.name = "get_file_name_prefix"
    /\ op.arg.epoch_idx = PyInt(3)
    /\ op.arg.epoch_number = None
    /\ op.arg.date = date2
    /\ SleepRun
    /\ ret = PyStr("20230102_rat1_03_run1.1")

-----------------------------------------------------------------------------
(* C27: in whatever order the dates were supplied, the raw paths of the path *)
(* table are the raw directories of the dates, in the order of the dates;    *)
(* every actual raw name recorded under the directory of a date is a file of *)
(* that directory that starts with the prefix of that date, and every        *)
(* expected raw name recorded under it is a name of that date.               *)

\* the date whose raw directory path_name is
DateOfRawPath(path_name) ==
    {dates[ndx] : ndx \in {n \in 1..Len(dates) : raw_path(dates[n]) = path_name}}

C27_RawPathOfEachDate ==
    /\ Populated(path_names) =>
        LET raw(row) == row.file_type = "raw"
        IN  Map(SelectSeq(path_names.v, raw), LAMBDA row : row.path_name)
                = [ndx \in 1..Len(dates) |->
                        data_path \o subject_name \o "/raw/" \o dates[ndx]] \o <<>>
    /\ Populated(file_names) =>
        \A row \in Range(file_names.v) :
            row.file_type = "raw" =>
                \E date \in DateOfRawPath(row.path_name) :
                    StartsWith(row.file_name, date \o "_" \o subject_name)
    /\ ActualNamesFresh =>
        \A row \in Range(file_names.v) :
            row.file_type = "raw" => row.file_name \in fs[row.path_name]
    /\ Populated(expected_file_names) =>
        \A row \in Range(expected_file_names.v) :
            row.file_type = "raw" =>
                \E date \in DateOfRawPath(row.path_name) :
                    StartsWith(row.file_name, date \o "_" \o subject_name)

\* date2 was supplied before date1, and the directory of date1 holds a file that has
\* the prefix of date2
C27_Witness ==
    /\ dates = <<date2, date1>>
    /\ ActualNamesFresh
    /\ \E name \in fs[raw_path(date1)] : StartsWith(name, date2)
    /\ NamesAt(file_names, "raw", raw_path(date1)) # {}
    /\ NamesAt(expected_file_names, "raw", raw_path(date2)) # {}

-----------------------------------------------------------------------------
(* C28: for a FileInfo that has a date with no epoch (no .rec file in its    *)
(* raw directory at construction), every refresh made while all directories  *)
(* are there returns without error, and the expected raw names and the       *)
(* expected video names of that date are empty.                              *)

C28_NoEpochNoExpectedNames ==
    \A ndx \in 1..Len(dates) :
        h_n_epochs[ndx] = 0 =>
            /\ ( /\ op.name \in {"read", "update", "verify_file_names"}
                 /\ \A d \in ScannedDirs : d \in DOMAIN fs )
                => op.err = ""
            /\ Populated(expected_file_names) =>
                /\ NamesAt(expected_file_names, "raw", raw_path(dates[ndx])) = {}
                /\ \A name \in NamesAt(expected_file_names, "video",
                                       _get_video_files_path[1]) :
                        ~StartsWith(name, dates[ndx])

-----------------------------------------------------------------------------
(* C29: an update() made when the directory of the subject or the raw        *)
(* directory of one of the dates is no longer there raises, and the five     *)
(* tables are after it what they were before it.                             *)

C29_FailedValidationKeepsTables ==
    [][( /\ op'.name = "update"
         /\ \/ subject_path \notin DOMAIN fs
            \/ \E ndx \in 1..Len(dates) : raw_path(dates[ndx]) \notin DOMAIN fs )
        => ( /\ op'.err # ""
             /\ path_names' = path_names
             /\ file_names' = file_names
             /\ expected_file_names' = expected_file_names
             /\ matching_file_names' = matching_file_names
             /\ missing_file_names' = missing_file_names )]_vars

\* the tables were populated, then the subject's directory was removed, then
\* update() raised
C29_Witness ==
    /\ op.name = "update"
    /\ op.err = "ValueError"
    /\ subject_path \notin DOMAIN fs
    /\ \A n \in 1..Len(Tables) : Populated(Tables[n])
    /\ NamesAt(matching_file_names, "raw", raw_path(date1)) # {}

-----------------------------------------------------------------------------
(* C30: whenever the expected table is populated, every expected video name  *)
(* is the expected raw .h264 name of a date and one of its epochs,           *)
(* date_subject + epoch infix + camera infix + ".h264": the same name is     *)
(* expected under the raw directory of that date, and the video name is      *)
(* expected under the video directory.                                       *)

C30_VideoNameIsRawVideoName ==
    Populated(expected_file_names) =>
        \A row \in Range(expected_file_names.v) :
            row.file_type = "video" =>
                /\ row.path_name = _get_video_files_path[1]
                /\ \E ndx \in 1..Len(dates) :
                    \E i \in 1..h_n_epochs[ndx] :
                        LET info == epoch_name_info_row(i)
                        IN  /\ row.file_name =
                                dates[ndx] \o "_" \o subject_name
                                    \o "_" \o info.epoch_number \o "_" \o info.epoch_name
                                    \o "." \o info.camera_name \o ".h264"
                            /\ row.file_name \in
                                NamesAt(expected_file_names, "raw",
                                        raw_path(dates[ndx]))
                            /\ raw_path(dates[ndx]) # row.path_name

\* the video name of epoch 2 of date1 is expected
C30_Witness ==
    /\ Populated(expected_file_names)
    /\ camera_file_name(date1, 2, ext_h264)
            \in NamesAt(expected_file_names, "video", _get_video_files_path[1])
    /\ camera_file_name(date1, 2, ext_h264)
            \in NamesAt(expected_file_names, "raw", raw_path(date1))

====
